---- MODULE Spec2Model ----
(***************************************************************************)
(* BackLine: the tour settlement computation (fees, savings withholding,   *)
(* member cuts with the equal-split fallback), as the settlement page and  *)
(* the spreadsheet export compute it.                                      *)
(*                                                                         *)
(* Units. Money is an integer number of cents, as in the ledger.  A        *)
(* percentage is an integer number of thousandths of a percent point       *)
(* (33.33% is 33330, 100.00% is 100000), so that a value typed with three  *)
(* decimals (25.006) is told apart from its two-decimal rounding (25.01).  *)
(*                                                                         *)
(* Numbers. The program computes in JavaScript numbers (IEEE-754 binary64).*)
(* Where a result depends on binary64 rounding, the operator below         *)
(* computes the binary64 result, not the real-number one:                  *)
(*   - MathRoundShare: Math.round(cents * (percent / 100)), where the      *)
(*     product of an exact half (k + 0.5) can fall just below it;          *)
(*   - cutsValid: Math.abs(totalCuts - 100) <= 0.01.                       *)
(* round2 and the cut total are computed on decimals: the percentages of   *)
(* the model have an even digit of thousandths (24.986, 25.006), so no    *)
(* round2 argument lies on a rounding tie and the binary64 result is the   *)
(* decimal one.                                                            *)
(***************************************************************************)
EXTENDS Integers, Sequences, FiniteSets, TLC

(***************************************************************************)
(* Integer helpers.                                                        *)
(***************************************************************************)
Abs(x) == IF x < 0 THEN -x ELSE x

RECURSIVE Pow2(_)
Pow2(n) == IF n <= 0 THEN 1 ELSE 2 * Pow2(n - 1)

\* (x * 2^a) mod m
RECURSIVE DoubleMod(_, _, _)
DoubleMod(x, a, m) == IF a <= 0 THEN x % m ELSE DoubleMod((2 * x) % m, a - 1, m)

\* the residue u of a division by m, taken in -m/2 .. m/2 (round to nearest)
Sym(u, m) == IF 2 * u < m THEN u ELSE u - m

\* floor(log2(num / den)), num and den positive
RECURSIVE FloorLog2(_, _)
FloorLog2(num, den) ==
    IF num >= 2 * den THEN 1 + FloorLog2(num, 2 * den)
    ELSE IF num < den THEN FloorLog2(2 * num, den) - 1
    ELSE 0

\* <<(a * b) div 100000, (a * b) mod 100000>> for 0 <= a <= 2000000 and
\* 0 <= b < 2^17, without leaving 32-bit integers
MulDivMod(a, b) ==
    LET bp == b \div 1000
        bf == b % 1000
        hi == a * bp
        lo == a * bf
        r  == (hi % 100) * 1000 + (lo % 100000)
    IN  << (hi \div 100) + (lo \div 100000) + (r \div 100000), r % 100000 >>

(***************************************************************************)
(* binary64.  For a percentage of t thousandths, the program's factor      *)
(* q = (t / 1000) / 100 is two roundings away from t / 100000:             *)
(*   c = fl(t / 1000)  = (t * 2^a - r1) / (1000 * 2^a),                    *)
(*   q = fl(c / 100)   = t / 100000 - R / (100000 * 2^(a + b)),            *)
(* with R = r1 * 2^b + 1000 * r2, where 2^a and 2^b scale the significands *)
(* into [2^52, 2^53) and r1, r2 are the nearest-residues of the two        *)
(* divisions.  FactorError(t) is <<R, a + b>>.                             *)
(***************************************************************************)
FactorError(t) ==
    LET ec   == FloorLog2(t, 1000)
        a    == 52 - ec
        r1   == Sym(DoubleMod(t % 1000, a, 1000), 1000)
        low  == IF ec >= 0 THEN 16 * t < 25000 * Pow2(ec)
                           ELSE 16 * t * Pow2(-ec) < 25000
        b    == IF low THEN 7 ELSE 6
        mc25 == ((DoubleMod(t % 25000, a, 25000) - r1 + 25000) % 25000) \div 1000
        r2   == Sym(((mc25 * (Pow2(b - 2) % 25)) % 25) * 4, 100)
    IN  << r1 * Pow2(b) + 1000 * r2, a + b >>

\* x * R > 100000 * 2^g, for x, R >= 0
ExceedsHalfUlp(x, R, g) ==
    IF g >= 30 THEN FALSE
    ELSE IF g >= 0
         THEN LET qr == MulDivMod(x, R)
              IN  qr[1] > Pow2(g) \/ (qr[1] = Pow2(g) /\ qr[2] > 0)
         ELSE x * R * Pow2(-g) > 100000

(***************************************************************************)
(* Math.round(cents * (percent / 100)) in binary64, percent = t / 1000.    *)
(* Math.round rounds to the nearest integer, a half towards +infinity.     *)
(* Off a half the binary64 product rounds as the real one (its error is    *)
(* far below 1/100000).  On a half T = k + 0.5 the binary64 product is     *)
(* T - |cents| * R / (100000 * 2^(a+b)) rounded to 53 bits: it stays T     *)
(* unless that offset exceeds half an ulp of T, and then Math.round sees   *)
(* a value on the other side of the half.                                  *)
(***************************************************************************)
MathRoundShare(cents, t) ==
    IF cents = 0 \/ t = 0 THEN 0
    ELSE
    LET n   == MulDivMod(Abs(cents), t)
        k   == n[1]
        rem == n[2]
        up  == IF rem > 50000 THEN 1 ELSE 0
    IN  IF rem # 50000
        THEN (IF cents > 0 THEN k + up ELSE -(k + up))
        ELSE LET fe == FactorError(t)
                 R  == fe[1]
                 g  == fe[2] + FloorLog2(2 * k + 1, 2) - 53
             IN  IF cents > 0
                 THEN IF R > 0 /\ ExceedsHalfUlp(IF k = 0 THEN 2 * cents ELSE cents, R, g)
                      THEN k ELSE k + 1
                 ELSE IF R < 0 /\ ExceedsHalfUlp(-cents, -R, g)
                      THEN -(k + 1) ELSE -k


(***************************************************************************)
(* Values of the data model.                                               *)
(***************************************************************************)
\* a text that is null or a message (error, status)
Null == "null"
NoError == Null

\* a value that may be null (a maybeSingle() row, a nullable column, an
\* optional id): the empty sequence, or the sequence of the one value
None == << >>
Some(x) == << x >>
NoRow == None
NoSheet == None

\* the signed-in user whose browser shows the settlement page and who
\* requests the export: the band's creator (band member 1)
ViewerUser == 1

Roles == {"owner", "manager", "member"}

\* model bounds
MaxMembers == 4
MaxCount == 30
MaxCents == 8
MaxEntries == 2
MaxRoster == 3
MaxInvites == 2
MaxDays == 3

\* the values typed into a Cut % field, thousandths: with three decimals
\* (24.986, 25.006), and with none (0, 50)
FineCutChoices == {24986, 25006}
CutChoices == {0, 50000} \cup FineCutChoices

\* values typed that saveCuts has to refuse: below zero (-50 with 150 totals
\* 100), and 50.012 (with 50 totals 100.012)
RefusedCutChoices == {-50000, 150000, 50012}

\* the percentages of a band_finance_settings row, thousandths
PercentChoices == {0, 5000, 10000, 35000}

\* the amounts of ledger entries: addEntry stores only amounts > 0
AmountChoices == {90, 20000, 100000}

\* the signed-in user of the invite page, no member of the band yet
InviteeUser == 3

\* users who can send requests
Users == 1..MaxRoster

DayTables == {"day_drives", "day_logistics", "day_risk"}

NoLeave == [ pc |-> "idle", response |-> Null, membershipId |-> None ]
NoDelete == [ pc |-> "idle", response |-> Null, tourIds |-> {}, dayIds |-> {} ]

\* a tour without cut rows
NoCuts == << >>

VARIABLES
    \* the database
    members,            \* band_members of the band, in created_at order
    cuts,               \* cuts of the tour, by band_member_id (all is_active)
    finance,            \* the band's band_finance_settings row, or NoRow
    ledger,             \* ledger_entries of the tour, in created_at order
    \* the settlement page (React state of SettlementPage)
    loading, error, status, rows, canEdit,
    totalIncomeCents, totalExpenseCents,
    savingsPercent, managerPercent, agentPercent,
    \* the workbook the last finance-export request answered with, or NoSheet
    sheet,
    \* the band settings page (React state of BandSettingsPage)
    currentUserRole, financeStatus,
    savingsPercentInput, managerPercentInput, agentPercentInput,
    \* the rest of the band's rows in the database
    band,               \* the bands row exists
    tours,              \* ids of the band's tours rows
    days,               \* the days rows of those tours: [id, tour_id, date]
    dayRows,            \* day_drives, day_logistics, day_risk: the day_id of each row
    invites,            \* band_invites of the band, by id
    \* requests being served, and pages open in other browsers
    leaveRequests,      \* POST /api/bands/[bandId]/leave, by calling user
    deleteRequests,     \* DELETE /api/bands/[bandId], by calling user
    invitePage,         \* the invitee's invite page: the invite it loaded, its user
    \* one browser: the Supabase session, the bl-authenticated cookie, the page
    \* it shows and that page's React state
    session, authMarker, location, loginPage, dashboard, profilePage,
    \* drives: the day_drives rows by day_id, the days whose day_logistics row
    \* has destination_lat and destination_lng, the answer of the last
    \* recompute request, the time
    driveRows, destinations, recomputeResponse, clock

dbVars == << members, cuts, finance, ledger >>
pageVars == << loading, error, status, rows, canEdit, totalIncomeCents,
               totalExpenseCents, savingsPercent, managerPercent, agentPercent >>
settingsVars == << currentUserRole, financeStatus, savingsPercentInput,
                   managerPercentInput, agentPercentInput >>
\* what the settlement page and the export leave alone
workspaceVars == << band, tours, days, dayRows, invites, leaveRequests, deleteRequests,
                    invitePage >>
authVars == << session, authMarker, location, loginPage, dashboard, profilePage >>
driveVars == << driveRows, destinations, recomputeResponse, clock >>
extraVars == << settingsVars, workspaceVars, authVars, driveVars >>
vars == << members, cuts, finance, ledger, loading, error, status, rows, canEdit,
           totalIncomeCents, totalExpenseCents, savingsPercent, managerPercent,
           agentPercent, sheet, extraVars >>

(***************************************************************************)
(* Sequence helpers.                                                       *)
(***************************************************************************)
\* s.reduce((sum, v) => sum + v, 0)
RECURSIVE SumSeq(_)
SumSeq(s) == IF s = << >> THEN 0 ELSE Head(s) + SumSeq(Tail(s))

RECURSIVE SelectActive(_)
SelectActive(s) ==
    IF s = << >> THEN << >>
    ELSE IF Head(s).is_active THEN << Head(s) >> \o SelectActive(Tail(s))
    ELSE SelectActive(Tail(s))

\* x ?? y, for a nullable x
Coalesce(x, y) == IF x = None THEN y ELSE x[1]

(***************************************************************************)
(* round2 and makeEqualSplits (settlement page).                           *)
(* round2 takes the real number num / den thousandths and returns          *)
(* thousandths that are a whole number of hundredths, a half up.           *)
(***************************************************************************)
round2(num, den) == 10 * ((num + 5 * den) \div (10 * den))

\* makeEqualSplits without its remainder correction
makeEqualSplitsNoRemainder(count) ==
    IF count <= 0 THEN << >> ELSE [i \in 1..count |-> round2(100000, count)]

\* makeEqualSplits with the remainder given to the first member
makeEqualSplitsFirst(count) ==
    IF count <= 0 THEN << >>
    ELSE LET base == round2(100000, count)
         IN  [i \in 1..count |-> IF i = 1 THEN base + (100000 - count * base) ELSE base]

makeEqualSplits(count) ==
    IF count <= 0 THEN << >>
    ELSE LET base   == round2(100000, count)
             splits == [i \in 1..count |-> base]
             diff   == round2(100000 - SumSeq(splits), 1)
         IN  [splits EXCEPT ![count] = round2(splits[count] + diff, 1)]

\* the same two functions of the export route
exportRound2(num, den) == 10 * ((num + 5 * den) \div (10 * den))

exportMakeEqualSplits(count) ==
    IF count <= 0 THEN << >>
    ELSE LET base   == exportRound2(100000, count)
             splits == [i \in 1..count |-> base]
             diff   == exportRound2(100000 - SumSeq(splits), 1)
         IN  [splits EXCEPT ![count] = exportRound2(splits[count] + diff, 1)]


(***************************************************************************)
(* The figures of the settlement page, computed on every render from the   *)
(* page's state.                                                           *)
(***************************************************************************)
managerFeeCents == MathRoundShare(totalIncomeCents, managerPercent)
agentFeeCents == MathRoundShare(totalIncomeCents, agentPercent)
grossFeesCents == managerFeeCents + agentFeeCents
\* the net with the fees left out
netBeforeFees == totalIncomeCents - totalExpenseCents

netAfterFeesAndExpensesCents == totalIncomeCents - grossFeesCents - totalExpenseCents
\* the withholding taken from gross income
savingsOnGross ==
    IF netAfterFeesAndExpensesCents > 0
    THEN MathRoundShare(totalIncomeCents, savingsPercent)
    ELSE 0

\* the withholding without its guard on a positive net
savingsUnguarded == MathRoundShare(netAfterFeesAndExpensesCents, savingsPercent)

savingsAmountCents ==
    IF netAfterFeesAndExpensesCents > 0
    THEN MathRoundShare(netAfterFeesAndExpensesCents, savingsPercent)
    ELSE 0
distributableNetCents == netAfterFeesAndExpensesCents - savingsAmountCents

\* the payout taken from gross income
payoutOfGross(row) == MathRoundShare(totalIncomeCents, row.cutPercent)

\* the payout cell of a row of the Cuts table
payoutCents(row) == MathRoundShare(distributableNetCents, row.cutPercent)

RowPercents(rs) == [i \in 1..Len(rs) |-> rs[i].cutPercent]

totalCuts == round2(SumSeq(RowPercents(rows)), 1)

\* Math.abs(totalCuts - 100) <= 0.01 in binary64.  totalCuts is a whole number
\* of hundredths.  At a distance of one hundredth the comparison fails:
\* fl(100.01) - 100 and 100 - fl(99.99) are both 0.010000000000005116, above
\* fl(0.01) = 0.010000000000000000208; so only a total of 100.00 passes.
cutsValid ==
    LET d == Abs(totalCuts - 100000)
    IN  IF d = 10 THEN FALSE ELSE d <= 10

(***************************************************************************)
(* loadPage.  The viewer is signed in and the tour exists.                 *)
(***************************************************************************)
LedgerTotal(entries, type) ==
    SumSeq([i \in 1..Len(entries) |->
               IF entries[i].entry_type = type THEN entries[i].amount_cents ELSE 0])

\* a missing row read as 10 percent
FinancePercentDefaultTen(row, field) == IF row = NoRow THEN 10000 ELSE row[1][field]

\* Number(finance?.field ?? 0)
FinancePercent(row, field) == IF row = NoRow THEN 0 ELSE row[1][field]

\* the rows with the equal split taken over every member row, active or not
LoadRowsOverAllMembers(active, cutTable) ==
    LET equalSplits == makeEqualSplits(Len(members))
    IN  [index \in 1..Len(active) |->
            LET member == active[index]
                hasCut == member.id \in DOMAIN cutTable
            IN  [ cutId        |-> IF hasCut THEN Some(cutTable[member.id].id) ELSE None,
                  bandMemberId |-> member.id,
                  role         |-> member.role,
                  cutPercent   |-> IF hasCut
                                   THEN Coalesce(cutTable[member.id].cut_percent,
                                                 Coalesce(cutTable[member.id].percent, 0))
                                   ELSE equalSplits[index] ]]

\* the rows with the equal split taken over the members without a cut row
LoadRowsSplitAmongUncut(active, cutTable) ==
    LET uncut       == { i \in 1..Len(active) : active[i].id \notin DOMAIN cutTable }
        equalSplits == makeEqualSplits(Cardinality(uncut))
    IN  [index \in 1..Len(active) |->
            LET member == active[index]
                hasCut == member.id \in DOMAIN cutTable
                place  == Cardinality({ i \in uncut : i <= index })
            IN  [ cutId        |-> IF hasCut THEN Some(cutTable[member.id].id) ELSE None,
                  bandMemberId |-> member.id,
                  role         |-> member.role,
                  cutPercent   |-> IF hasCut
                                   THEN Coalesce(cutTable[member.id].cut_percent,
                                                 Coalesce(cutTable[member.id].percent, 0))
                                   ELSE equalSplits[place] ]]

\* nextRows of loadPage, from the active members and the tour's cut rows
LoadRows(active, cutTable) ==
    LET equalSplits == makeEqualSplits(Len(active))
    IN  [index \in 1..Len(active) |->
            LET member == active[index]
                hasCut == member.id \in DOMAIN cutTable
            IN  [ cutId        |-> IF hasCut THEN Some(cutTable[member.id].id) ELSE None,
                  bandMemberId |-> member.id,
                  role         |-> member.role,
                  cutPercent   |-> IF hasCut
                                   THEN Coalesce(cutTable[member.id].cut_percent,
                                                 Coalesce(cutTable[member.id].percent, 0))
                                   ELSE equalSplits[index] ]]

loadPage ==
    LET active == SelectActive(members)
        me     == { i \in 1..Len(active) : active[i].user_id = ViewerUser }
    IN  /\ status' = Null
        /\ loading' = FALSE
        /\ savingsPercent' = FinancePercent(finance, "savings_percent")
        /\ managerPercent' = FinancePercent(finance, "manager_percent")
        /\ agentPercent' = FinancePercent(finance, "agent_percent")
        /\ IF Len(active) = 0
           THEN /\ rows' = << >>
                /\ canEdit' = FALSE
                /\ error' = NoError
                /\ UNCHANGED << totalIncomeCents, totalExpenseCents >>
           ELSE IF me = {}
           THEN /\ error' = "You do not have access to this tour."
                /\ UNCHANGED << rows, canEdit, totalIncomeCents, totalExpenseCents >>
           ELSE /\ error' = NoError
                /\ canEdit' = (active[CHOOSE i \in me : TRUE].role \in {"owner", "manager"})
                /\ totalIncomeCents' = LedgerTotal(ledger, "income")
                /\ totalExpenseCents' = LedgerTotal(ledger, "expense")
                /\ rows' = LoadRows(active, cuts)
        /\ UNCHANGED << dbVars, sheet, extraVars >>

\* the page renders its tables and inputs
Rendered == loading = FALSE /\ error = NoError

(***************************************************************************)
(* onChange of a Cut % input (rendered as an input only when canEdit).     *)
(***************************************************************************)
editCut(index, next) ==
    /\ Rendered /\ canEdit
    /\ index \in 1..Len(rows)
    /\ rows' = [rows EXCEPT ![index].cutPercent = next]
    /\ UNCHANGED extraVars
    /\ UNCHANGED << dbVars, loading, error, status, canEdit, totalIncomeCents,
                    totalExpenseCents, savingsPercent, managerPercent, agentPercent,
                    sheet >>

(***************************************************************************)
(* saveCuts.  The upsert either succeeds or answers with an error.         *)
(***************************************************************************)
\* payload of saveCuts
CutsPayload(rs) ==
    [i \in 1..Len(rs) |->
        [ id             |-> rs[i].cutId,
          band_member_id |-> rs[i].bandMemberId,
          cut_percent    |-> Some(round2(rs[i].cutPercent, 1)),
          percent        |-> Some(round2(rs[i].cutPercent, 1)) ]]

\* upsert(payload, { onConflict: "tour_id,band_member_id" }): the row of a
\* (tour, member) is updated, or inserted with a new id (here the member's)
UpsertCuts(cutTable, payload) ==
    LET written == { payload[i].band_member_id : i \in 1..Len(payload) }
        rowFor(m) == payload[CHOOSE i \in 1..Len(payload) : payload[i].band_member_id = m]
    IN  [m \in DOMAIN cutTable \cup written |->
            IF m \in written
            THEN [ id          |-> IF m \in DOMAIN cutTable THEN cutTable[m].id ELSE m,
                   cut_percent |-> rowFor(m).cut_percent,
                   percent     |-> rowFor(m).percent ]
            ELSE cutTable[m]]

\* saveCuts without its two validations
saveCutsUnvalidated(upsertOk) ==
    /\ Rendered /\ canEdit
    /\ IF ~upsertOk
       THEN /\ status' = "Error saving cuts"
            /\ UNCHANGED << cuts, rows >>
       ELSE /\ cuts' = UpsertCuts(cuts, CutsPayload(rows))
            /\ rows' = [i \in 1..Len(rows) |->
                           [rows[i] EXCEPT !.cutId = Some(cuts'[rows[i].bandMemberId].id)]]
            /\ status' = "Cuts saved."
    /\ UNCHANGED extraVars
    /\ UNCHANGED << members, finance, ledger, loading, error, canEdit, totalIncomeCents,
                    totalExpenseCents, savingsPercent, managerPercent, agentPercent,
                    sheet >>

saveCuts(upsertOk) ==
    /\ Rendered /\ canEdit
    /\ IF ~cutsValid
       THEN /\ status' = "Cuts must total 100.00% before saving."
            /\ UNCHANGED << cuts, rows >>
       ELSE IF \E i \in 1..Len(rows) : rows[i].cutPercent < 0
       THEN /\ status' = "Cut percentages must be 0 or greater."
            /\ UNCHANGED << cuts, rows >>
       ELSE IF ~upsertOk
       THEN /\ status' = "Error saving cuts"
            /\ UNCHANGED << cuts, rows >>
       ELSE /\ cuts' = UpsertCuts(cuts, CutsPayload(rows))
            /\ rows' = [i \in 1..Len(rows) |->
                           [rows[i] EXCEPT !.cutId = Some(cuts'[rows[i].bandMemberId].id)]]
            /\ status' = "Cuts saved."
    /\ UNCHANGED extraVars
    /\ UNCHANGED << members, finance, ledger, loading, error, canEdit, totalIncomeCents,
                    totalExpenseCents, savingsPercent, managerPercent, agentPercent,
                    sheet >>


(***************************************************************************)
(* GET /api/tours/[tourId]/finance-export, requested by the viewer.  The   *)
(* Settlement sheet holds each amount as cents / 100 and each percentage   *)
(* as percent / 100; sheet records the cents and the percent.              *)
(***************************************************************************)
\* the member payouts read from cut_percent alone
ExportPayoutRowsCutPercentOnly(active, cutTable, distributable) ==
    LET equalSplits == exportMakeEqualSplits(Len(active))
    IN  [index \in 1..Len(active) |->
            LET member == active[index]
                cutPercent ==
                    IF member.id \in DOMAIN cutTable
                    THEN Coalesce(cutTable[member.id].cut_percent, 0)
                    ELSE equalSplits[index]
            IN  [ bandMemberId |-> member.id,
                  role         |-> member.role,
                  cutPercent   |-> cutPercent,
                  payoutCents  |-> MathRoundShare(distributable, cutPercent) ]]

ExportPayoutRows(active, cutTable, distributable) ==
    LET equalSplits == exportMakeEqualSplits(Len(active))
    IN  [index \in 1..Len(active) |->
            LET member == active[index]
                cutPercent ==
                    IF member.id \in DOMAIN cutTable
                    THEN Coalesce(cutTable[member.id].cut_percent,
                                  Coalesce(cutTable[member.id].percent, 0))
                    ELSE equalSplits[index]
            IN  [ bandMemberId |-> member.id,
                  role         |-> member.role,
                  cutPercent   |-> cutPercent,
                  payoutCents  |-> MathRoundShare(distributable, cutPercent) ]]

\* emptyDailyTotals()
emptyDailyTotals ==
    [ guaranteeCents |-> 0, buyoutCents |-> 0, merchCents |-> 0, otherIncomeCents |-> 0,
      gasCents |-> 0, foodCents |-> 0, lodgingCents |-> 0, repairsCents |-> 0,
      otherExpenseCents |-> 0 ]

\* (entry.category ?? "").toLowerCase(), for the categories of the model
ToLowerCase(category) ==
    CASE category = Null          -> ""
      [] category = "Gas"         -> "gas"
      [] OTHER                    -> category

\* a category that is not known is left out
addToDailyTotalsKnownOnly(totals, entry) ==
    LET category == ToLowerCase(entry.category)
        amount   == entry.amount_cents
    IN  IF entry.entry_type = "income"
        THEN CASE category = "guarantee"   -> [totals EXCEPT !.guaranteeCents = @ + amount]
               [] category = "buyout"      -> [totals EXCEPT !.buyoutCents = @ + amount]
               [] category = "merch_sales" -> [totals EXCEPT !.merchCents = @ + amount]
               [] OTHER                    -> totals
        ELSE CASE category = "gas"         -> [totals EXCEPT !.gasCents = @ + amount]
               [] category = "food"        -> [totals EXCEPT !.foodCents = @ + amount]
               [] category = "lodging"     -> [totals EXCEPT !.lodgingCents = @ + amount]
               [] category = "repairs"     -> [totals EXCEPT !.repairsCents = @ + amount]
               [] OTHER                    -> totals

addToDailyTotals(totals, entry) ==
    LET category == ToLowerCase(entry.category)
        amount   == entry.amount_cents
    IN  IF entry.entry_type = "income"
        THEN CASE category = "guarantee"   -> [totals EXCEPT !.guaranteeCents = @ + amount]
               [] category = "buyout"      -> [totals EXCEPT !.buyoutCents = @ + amount]
               [] category = "merch_sales" -> [totals EXCEPT !.merchCents = @ + amount]
               [] OTHER                    -> [totals EXCEPT !.otherIncomeCents = @ + amount]
        ELSE CASE category = "gas"         -> [totals EXCEPT !.gasCents = @ + amount]
               [] category = "food"        -> [totals EXCEPT !.foodCents = @ + amount]
               [] category = "lodging"     -> [totals EXCEPT !.lodgingCents = @ + amount]
               [] category = "repairs"     -> [totals EXCEPT !.repairsCents = @ + amount]
               [] OTHER                    -> [totals EXCEPT !.otherExpenseCents = @ + amount]

\* for (const entry of entries) addToDailyTotals(totalCategoryCents, entry)
RECURSIVE TotalCategoryCents(_)
TotalCategoryCents(entries) ==
    IF entries = << >> THEN emptyDailyTotals
    ELSE addToDailyTotals(TotalCategoryCents(SubSeq(entries, 1, Len(entries) - 1)),
                          entries[Len(entries)])

ExportSheet(memberRows, financeRow, cutTable, entries) ==
    LET active   == SelectActive(memberRows)
        income   == LedgerTotal(entries, "income")
        expense  == LedgerTotal(entries, "expense")
        mPercent == FinancePercent(financeRow, "manager_percent")
        aPercent == FinancePercent(financeRow, "agent_percent")
        sPercent == FinancePercent(financeRow, "savings_percent")
        mFee     == MathRoundShare(income, mPercent)
        aFee     == MathRoundShare(income, aPercent)
        net      == income - (mFee + aFee) - expense
        savings  == IF net > 0 THEN MathRoundShare(net, sPercent) ELSE 0
    IN  [ totalIncomeCents             |-> income,
          totalExpenseCents            |-> expense,
          totalCategoryCents           |-> TotalCategoryCents(entries),
          managerPercent               |-> mPercent,
          agentPercent                 |-> aPercent,
          savingsPercent               |-> sPercent,
          managerFeeCents              |-> mFee,
          agentFeeCents                |-> aFee,
          netAfterFeesAndExpensesCents |-> net,
          savingsAmountCents           |-> savings,
          distributableNetCents        |-> net - savings,
          payoutRows                   |-> ExportPayoutRows(active, cutTable, net - savings) ]

exportGET ==
    /\ IF \E i \in 1..Len(members) :
              members[i].user_id = ViewerUser /\ members[i].is_active
       THEN sheet' = Some(ExportSheet(members, finance, cuts, ledger))
       ELSE sheet' = NoSheet       \* 403
    /\ UNCHANGED << dbVars, pageVars, extraVars >>

(***************************************************************************)
(* The band's membership changes while the tour is settled.                *)
(***************************************************************************)
MemberRow(i, r) == [ id |-> i, user_id |-> i, role |-> r, is_active |-> TRUE ]

\* handleAcceptInvite of a new user: a band_members row is inserted
joinBand ==
    /\ Len(members) < MaxMembers
    /\ members' = Append(members, MemberRow(Len(members) + 1, "member"))
    /\ UNCHANGED << cuts, finance, ledger, pageVars, sheet, extraVars >>

\* POST /api/bands/[bandId]/leave by the user of member row i
leaveBand(i) ==
    /\ i \in 1..Len(members)
    /\ members[i].is_active
    /\ members[i].role = "owner" =>
           Cardinality({ j \in 1..Len(members) :
                           members[j].role = "owner" /\ members[j].is_active }) > 1
    /\ members' = [members EXCEPT ![i].is_active = FALSE]
    /\ UNCHANGED << cuts, finance, ledger, pageVars, sheet, extraVars >>

(***************************************************************************)
(* POST /api/bands/[bandId]/leave, one database call at a time: the        *)
(* caller's membership is read, the active owners are counted when the     *)
(* caller is an owner, and the membership is set inactive.  Requests of    *)
(* different users are served side by side.                                *)
(***************************************************************************)
\* the band_members rows of user u (maybeSingle: at most one)
MembershipOf(u) == { i \in 1..Len(members) : members[i].user_id = u }

ActiveOwnerCount ==
    Cardinality({ i \in 1..Len(members) : members[i].role = "owner" /\ members[i].is_active })

leaveReadMembership(u) ==
    /\ leaveRequests[u].pc = "idle"
    /\ LET mine == MembershipOf(u)
       IN  IF mine = {} \/ ~members[CHOOSE i \in mine : TRUE].is_active
           THEN leaveRequests' = [leaveRequests EXCEPT ![u] =
                    [ pc |-> "idle", response |-> "403", membershipId |-> None ]]
           ELSE LET membership == members[CHOOSE i \in mine : TRUE]
                IN  leaveRequests' = [leaveRequests EXCEPT ![u] =
                        [ pc           |-> IF membership.role = "owner"
                                           THEN "count owners" ELSE "update",
                          response     |-> Null,
                          membershipId |-> Some(membership.id) ]]
    /\ UNCHANGED << dbVars, pageVars, sheet, settingsVars, band, tours, days, dayRows,
                    invites, deleteRequests, invitePage,
                    authVars, driveVars >>

leaveCountOwners(u) ==
    /\ leaveRequests[u].pc = "count owners"
    /\ leaveRequests' = [leaveRequests EXCEPT ![u] =
           IF ActiveOwnerCount <= 1
           THEN [ pc |-> "idle", response |-> "400", membershipId |-> None ]
           ELSE [ @ EXCEPT !.pc = "update" ]]
    /\ UNCHANGED << dbVars, pageVars, sheet, settingsVars, band, tours, days, dayRows,
                    invites, deleteRequests, invitePage,
                    authVars, driveVars >>

leaveUpdate(u) ==
    /\ leaveRequests[u].pc = "update"
    /\ LET target == { i \in 1..Len(members) :
                          Some(members[i].id) = leaveRequests[u].membershipId }
       IN  IF target = {}
           THEN /\ leaveRequests' = [leaveRequests EXCEPT ![u] =
                       [ pc |-> "idle", response |-> "500", membershipId |-> None ]]
                /\ UNCHANGED members
           ELSE /\ members' = [members EXCEPT ![CHOOSE i \in target : TRUE].is_active = FALSE]
                /\ leaveRequests' = [leaveRequests EXCEPT ![u] =
                       [ pc |-> "idle", response |-> "ok", membershipId |-> None ]]
    /\ UNCHANGED << cuts, finance, ledger, pageVars, sheet, settingsVars, band, tours,
                    days, dayRows, invites, deleteRequests, invitePage,
                    authVars, driveVars >>

(***************************************************************************)
(* DELETE /api/bands/[bandId], one database call at a time.  The caller's  *)
(* membership is read, then the ids of the band's tours and of their days, *)
(* then the tables are emptied in the order of DeleteOrder and the bands    *)
(* row is deleted.  A call that answers with an error ends the request     *)
(* with 400.  pc names the call the request makes next.                    *)
(***************************************************************************)
\* the deletes of the route, in the order it makes them
DeleteOrder ==
    << "day_drives", "day_logistics", "day_risk", "ledger_entries", "cuts", "days",
       "tours", "band_invites", "band_finance_settings", "band_members", "bands" >>

PlaceOf(call) == CHOOSE i \in 1..Len(DeleteOrder) : DeleteOrder[i] = call

\* the route with the cuts left in place
CallAfterLeavingCuts(call, tourIds, dayIds) ==
    IF call = "read tours"
    THEN (IF tourIds = {} THEN "band_invites" ELSE "read days")
    ELSE IF call = "read days"
    THEN (IF dayIds = {} THEN "ledger_entries" ELSE "day_drives")
    ELSE IF call = "ledger_entries" THEN "days"
    ELSE DeleteOrder[PlaceOf(call) + 1]

\* the call the route makes after a call that succeeded
CallAfter(call, tourIds, dayIds) ==
    IF call = "read tours"
    THEN (IF tourIds = {} THEN "band_invites" ELSE "read days")
    ELSE IF call = "read days"
    THEN (IF dayIds = {} THEN "ledger_entries" ELSE "day_drives")
    ELSE DeleteOrder[PlaceOf(call) + 1]

EndDelete(u, response) ==
    deleteRequests' = [deleteRequests EXCEPT ![u] =
        [ pc |-> "idle", response |-> response, tourIds |-> {}, dayIds |-> {} ]]

\* the membership test without the test of the role
deleteReadMembershipAnyRole(u) ==
    /\ deleteRequests[u].pc = "idle"
    /\ LET mine == MembershipOf(u)
       IN  IF mine = {} \/ ~members[CHOOSE i \in mine : TRUE].is_active
           THEN EndDelete(u, "403")
           ELSE deleteRequests' = [deleteRequests EXCEPT ![u] =
                    [ pc |-> "read tours", response |-> Null, tourIds |-> {}, dayIds |-> {} ]]
    /\ UNCHANGED << dbVars, pageVars, sheet, settingsVars, band, tours, days, dayRows,
                    invites, leaveRequests, invitePage,
                    authVars, driveVars >>

deleteReadMembership(u) ==
    /\ deleteRequests[u].pc = "idle"
    /\ LET mine == MembershipOf(u)
       IN  IF \/ mine = {}
              \/ ~members[CHOOSE i \in mine : TRUE].is_active
              \/ members[CHOOSE i \in mine : TRUE].role # "owner"
           THEN EndDelete(u, "403")
           ELSE deleteRequests' = [deleteRequests EXCEPT ![u] =
                    [ pc |-> "read tours", response |-> Null, tourIds |-> {}, dayIds |-> {} ]]
    /\ UNCHANGED << dbVars, pageVars, sheet, settingsVars, band, tours, days, dayRows,
                    invites, leaveRequests, invitePage,
                    authVars, driveVars >>

\* select id from tours where band_id = ...
deleteReadTours(u, ok) ==
    /\ deleteRequests[u].pc = "read tours"
    /\ IF ~ok
       THEN EndDelete(u, "400")
       ELSE deleteRequests' = [deleteRequests EXCEPT ![u] =
                [ @ EXCEPT !.tourIds = tours, !.pc = CallAfter("read tours", tours, {}) ]]
    /\ UNCHANGED << dbVars, pageVars, sheet, settingsVars, band, tours, days, dayRows,
                    invites, leaveRequests, invitePage,
                    authVars, driveVars >>

\* select id from days where tour_id in tourIds
deleteReadDays(u, ok) ==
    /\ deleteRequests[u].pc = "read days"
    /\ LET dayIds == { d.id : d \in { x \in days : x.tour_id \in deleteRequests[u].tourIds } }
       IN  IF ~ok
           THEN EndDelete(u, "400")
           ELSE deleteRequests' = [deleteRequests EXCEPT ![u] =
                    [ @ EXCEPT !.dayIds = dayIds,
                               !.pc = CallAfter("read days", @.tourIds, dayIds) ]]
    /\ UNCHANGED << dbVars, pageVars, sheet, settingsVars, band, tours, days, dayRows,
                    invites, leaveRequests, invitePage,
                    authVars, driveVars >>

\* the rows of the band after the delete of one table (the ledger entries and
\* the cuts of the model are those of tour 1)
RowsAfterDelete(call, tourIds, dayIds) ==
    [ members |-> IF call = "band_members" THEN << >> ELSE members,
      cuts    |-> IF call = "cuts" /\ 1 \in tourIds THEN NoCuts ELSE cuts,
      finance |-> IF call = "band_finance_settings" THEN NoRow ELSE finance,
      ledger  |-> IF call = "ledger_entries" /\ 1 \in tourIds THEN << >> ELSE ledger,
      tours   |-> IF call = "tours" THEN tours \ tourIds ELSE tours,
      days    |-> IF call = "days" THEN { d \in days : d.tour_id \notin tourIds } ELSE days,
      dayRows |-> IF call \in DayTables
                  THEN [dayRows EXCEPT ![call] = @ \ dayIds] ELSE dayRows,
      driveRows |-> IF call = "day_drives"
                    THEN [d \in DOMAIN driveRows \ dayIds |-> driveRows[d]] ELSE driveRows,
      destinations |-> IF call = "day_logistics" THEN destinations \ dayIds
                       ELSE destinations,
      invites |-> IF call = "band_invites" THEN << >> ELSE invites ]

\* one of the deletes before that of the bands row
deleteRows(u, ok) ==
    LET request == deleteRequests[u]
        after   == RowsAfterDelete(request.pc, request.tourIds, request.dayIds)
    IN  /\ request.pc \in { DeleteOrder[i] : i \in 1..(Len(DeleteOrder) - 1) }
        /\ IF ~ok
           THEN /\ EndDelete(u, "400")
                /\ UNCHANGED << dbVars, tours, days, dayRows, invites, driveRows,
                                destinations >>
           ELSE /\ members' = after.members /\ cuts' = after.cuts
                /\ finance' = after.finance /\ ledger' = after.ledger
                /\ tours' = after.tours /\ days' = after.days
                /\ dayRows' = after.dayRows /\ invites' = after.invites
                /\ driveRows' = after.driveRows /\ destinations' = after.destinations
                /\ deleteRequests' = [deleteRequests EXCEPT ![u] =
                       [ @ EXCEPT !.pc = CallAfter(request.pc, request.tourIds,
                                                   request.dayIds) ]]
        /\ UNCHANGED << pageVars, sheet, settingsVars, band, leaveRequests, invitePage,
                        authVars, recomputeResponse, clock >>

\* delete from bands ... select id: no row given back answers 500
deleteBand(u, ok) ==
    /\ deleteRequests[u].pc = "bands"
    /\ IF ~ok
       THEN EndDelete(u, "400") /\ UNCHANGED band
       ELSE IF ~band
       THEN EndDelete(u, "500") /\ UNCHANGED band
       ELSE EndDelete(u, "ok") /\ band' = FALSE
    /\ UNCHANGED << dbVars, pageVars, sheet, settingsVars, tours, days, dayRows, invites,
                    leaveRequests, invitePage,
                    authVars, driveVars >>

(***************************************************************************)
(* Invites.  An owner or manager creates and revokes invites on the band   *)
(* settings page; the invitee opens the invite page of an invite's token   *)
(* and accepts.  handleAcceptInvite makes its database calls one at a      *)
(* time: the band_members insert, then the update of the invite.           *)
(***************************************************************************)
PendingInvite(i, r) == [ id |-> i, role |-> r, accepted_at |-> FALSE, revoked_at |-> FALSE ]

handleCreateInvite(r) ==
    /\ Len(invites) < MaxInvites
    /\ invites' = Append(invites, PendingInvite(Len(invites) + 1, r))
    /\ UNCHANGED << dbVars, pageVars, sheet, settingsVars, band, tours, days, dayRows,
                    leaveRequests, deleteRequests, invitePage,
                    authVars, driveVars >>

\* update ... set revoked_at where id = inviteId and accepted_at is null and
\* revoked_at is null
handleRevokeInvite(inviteId) ==
    /\ inviteId \in 1..Len(invites)
    /\ invites' = IF ~invites[inviteId].accepted_at /\ ~invites[inviteId].revoked_at
                  THEN [invites EXCEPT ![inviteId].revoked_at = TRUE]
                  ELSE invites
    /\ UNCHANGED << dbVars, pageVars, sheet, settingsVars, band, tours, days, dayRows,
                    leaveRequests, deleteRequests, invitePage,
                    authVars, driveVars >>

\* the invite page of the token of invite inviteId, opened by the invitee
loadInvitePage(inviteId) ==
    /\ invitePage.pc = "idle"
    /\ invitePage' =
           IF inviteId \notin 1..Len(invites)
           THEN [ invite |-> None, pc |-> "idle",
                  status |-> "Invite not found, unavailable, or not for this account." ]
           ELSE IF invites[inviteId].revoked_at
           THEN [ invite |-> Some(invites[inviteId]), pc |-> "idle",
                  status |-> "This invite has been revoked." ]
           ELSE IF invites[inviteId].accepted_at
           THEN [ invite |-> Some(invites[inviteId]), pc |-> "idle",
                  status |-> "This invite has already been accepted." ]
           ELSE [ invite |-> Some(invites[inviteId]), pc |-> "idle", status |-> Null ]
    /\ UNCHANGED << dbVars, pageVars, sheet, settingsVars, band, tours, days, dayRows,
                    invites, leaveRequests, deleteRequests,
                    authVars, driveVars >>

\* handleAcceptInvite up to its band_members insert; the Accept button shows
\* while the invite the page loaded is neither revoked nor accepted; a row the
\* user already has (error 23505) is passed over
acceptInsertMember ==
    /\ invitePage.pc = "idle"
    /\ invitePage.invite # None
    /\ ~invitePage.invite[1].revoked_at /\ ~invitePage.invite[1].accepted_at
    /\ members' = IF MembershipOf(InviteeUser) = {}
                  THEN Append(members, [ id        |-> Len(members) + 1,
                                         user_id   |-> InviteeUser,
                                         role      |-> invitePage.invite[1].role,
                                         is_active |-> TRUE ])
                  ELSE members
    /\ invitePage' = [invitePage EXCEPT !.pc = "update invite", !.status = Null]
    /\ UNCHANGED << cuts, finance, ledger, pageVars, sheet, settingsVars, band, tours,
                    days, dayRows, invites, leaveRequests, deleteRequests,
                    authVars, driveVars >>

\* update ... set accepted_at where id = invite.id and accepted_at is null and
\* revoked_at is null; then router.push
acceptUpdateInvite ==
    /\ invitePage.pc = "update invite"
    /\ LET id == invitePage.invite[1].id
       IN  invites' = IF /\ id \in 1..Len(invites)
                         /\ ~invites[id].accepted_at /\ ~invites[id].revoked_at
                      THEN [invites EXCEPT ![id].accepted_at = TRUE]
                      ELSE invites
    /\ invitePage' = [ invite |-> None, status |-> Null, pc |-> "idle" ]
    /\ UNCHANGED << dbVars, pageVars, sheet, settingsVars, band, tours, days, dayRows,
                    leaveRequests, deleteRequests,
                    authVars, driveVars >>

(***************************************************************************)
(* Drives.  POST /api/drives/recompute computes the drive into a day from  *)
(* the day before it; the tour page calls it after saving a day's          *)
(* logistics.                                                              *)
(***************************************************************************)
\* a days row of the tour
Day(id, date) == [ id |-> id, tour_id |-> 1, date |-> date ]

\* a day_drives row, kept by its day_id
DriveRow(from, now) == [ from_day_id |-> from, computed_at |-> now ]

\* the answer to a recompute request: its status and its JSON body; tourId
\* and dayId are those of the request it answers
NoResponse == [ tourId |-> None, dayId |-> None, status |-> Null,
                updated |-> 0, skipped |-> 0, errors |-> {} ]

Response(tourId, dayId, code) ==
    [ tourId |-> Some(tourId), dayId |-> dayId, status |-> code,
      updated |-> 0, skipped |-> 0, errors |-> {} ]

\* select id, date from days where tour_id = tourId order by date: the ids in
\* every order the database may give, days of one date either way round
RECURSIVE OrdersByDate(_)
OrdersByDate(dayRecords) ==
    IF dayRecords = {} THEN { << >> }
    ELSE UNION { { << first.id >> \o rest : rest \in OrdersByDate(dayRecords \ {first}) } :
                 first \in { d \in dayRecords : \A e \in dayRecords : d.date <= e.date } }

DaysByDate(tourId) == OrdersByDate({ d \in days : d.tour_id = tourId })

\* days.findIndex((d) => d.id === dayId), from 1; 0 for -1
FindIndex(order, dayId) ==
    IF \E i \in 1..Len(order) : order[i] = dayId
    THEN CHOOSE i \in 1..Len(order) : order[i] = dayId
    ELSE 0

\* every pair of the tour, whatever day is named
PairsOfWholeTour(order, dayId) ==
    [ i \in 1..(Len(order) - 1) |-> [ from |-> order[i], to |-> order[i + 1] ] ]

\* the pairs of a request: around the day named, or all of the tour
Pairs(order, dayId) ==
    IF dayId # None
    THEN LET idx == FindIndex(order, dayId[1])
         IN  (IF idx > 1 THEN << [ from |-> order[idx - 1], to |-> order[idx] ] >>
              ELSE << >>)
             \o (IF idx < Len(order) THEN << [ from |-> order[idx], to |-> order[idx + 1] ] >>
                 ELSE << >>)
    ELSE [ i \in 1..(Len(order) - 1) |-> [ from |-> order[i], to |-> order[i + 1] ] ]

\* the loop over the pairs from pair k on; outcomes[k] is "ok", "route error"
\* (computeRouteMetrics throws) or "db error" (the delete or upsert fails)
RECURSIVE ProcessPairs(_, _, _, _, _, _)
ProcessPairs(pairs, k, outcomes, coordinates, now, acc) ==
    IF k > Len(pairs) THEN acc
    ELSE LET pair == pairs[k]
             next ==
               IF pair.from \notin coordinates \/ pair.to \notin coordinates
               THEN [ acc EXCEPT
                        !.rows = IF outcomes[k] = "db error" THEN @
                                 ELSE [d \in DOMAIN @ \ {pair.to} |-> @[d]],
                        !.errors = IF outcomes[k] = "db error" THEN @ \cup {pair.to} ELSE @,
                        !.skipped = @ + 1 ]
               ELSE IF outcomes[k] # "ok"
               THEN [ acc EXCEPT !.errors = @ \cup {pair.to} ]
               ELSE [ acc EXCEPT
                        !.rows = [d \in DOMAIN @ \cup {pair.to} |->
                                    IF d = pair.to THEN DriveRow(pair.from, now) ELSE @[d]],
                        !.updated = @ + 1 ]
         IN  ProcessPairs(pairs, k + 1, outcomes, coordinates, now, next)

Outcomes == {"ok", "route error", "db error"}

\* the route past its authentication: the rows and the answer it leaves
Recompute(hasApiKey, tourId, dayId, order, outcomes, coordinates, now) ==
    IF ~hasApiKey
    THEN [ rows |-> driveRows, response |-> Response(tourId, dayId, "500") ]
    ELSE IF tourId \notin tours
    THEN [ rows |-> driveRows, response |-> Response(tourId, dayId, "403") ]
    ELSE IF Len(order) = 0
    THEN [ rows |-> driveRows, response |-> Response(tourId, dayId, "200") ]
    ELSE IF dayId # None /\ FindIndex(order, dayId[1]) = 0
    THEN [ rows |-> driveRows, response |-> Response(tourId, dayId, "400") ]
    ELSE LET done == ProcessPairs(Pairs(order, dayId), 1, outcomes, coordinates, now,
                                  [ rows |-> driveRows, updated |-> 0, skipped |-> 0,
                                    errors |-> {} ])
         IN  [ rows |-> done.rows,
               response |-> [ Response(tourId, dayId, "200") EXCEPT
                                !.updated = done.updated, !.skipped = done.skipped,
                                !.errors = done.errors ] ]

\* POST /api/drives/recompute { tourId, dayId }
POST(hasApiKey, tourId, dayId, outcomes) ==
    /\ clock' = clock + 1
    /\ \E order \in DaysByDate(tourId) :
          LET result == Recompute(hasApiKey, tourId, dayId, order, outcomes,
                                  destinations, clock')
          IN  /\ driveRows' = result.rows
              /\ recomputeResponse' = result.response
    /\ dayRows' = [dayRows EXCEPT !["day_drives"] = DOMAIN driveRows']
    /\ UNCHANGED destinations
    /\ UNCHANGED << dbVars, pageVars, sheet, settingsVars, band, tours, days, invites,
                    leaveRequests, deleteRequests, invitePage, authVars >>

\* saveLog of the tour page: the day_logistics row is upserted with or without
\* coordinates, then recompute(dayId) posts to the route
saveLog(dayId, hasCoordinates, upsertOk, hasApiKey, outcomes) ==
    /\ \E d \in days : d.id = dayId
    /\ IF ~upsertOk
       THEN UNCHANGED << dayRows, driveVars >>
       ELSE /\ destinations' = IF hasCoordinates THEN destinations \cup {dayId}
                               ELSE destinations \ {dayId}
            /\ clock' = clock + 1
            /\ \E order \in DaysByDate(1) :
                  LET result == Recompute(hasApiKey, 1, Some(dayId), order, outcomes,
                                          destinations', clock')
                  IN  /\ driveRows' = result.rows
                      /\ recomputeResponse' = result.response
            /\ dayRows' = [dayRows EXCEPT !["day_drives"] = DOMAIN driveRows',
                                          !["day_logistics"] = @ \cup {dayId}]
    /\ UNCHANGED << dbVars, pageVars, sheet, settingsVars, band, tours, days, invites,
                    leaveRequests, deleteRequests, invitePage, authVars >>

(***************************************************************************)
(* Signing in and out.  The middleware sees only the bl-authenticated      *)
(* cookie; the pages see the Supabase session.                             *)
(***************************************************************************)
Paths == {"/login", "/", "/profile", "/tours", "/onboarding"}

\* useState(...) of LoginPage, Home and ProfilePage
NoLoginPage == [ mode |-> "signin", status |-> Null ]
NoDashboard == [ status |-> "Connecting...", userEmail |-> None ]
NoProfilePage == [ email |-> None, loading |-> TRUE ]

\* a URL of the app: its path and its next parameter
URL(pathname, next) == [ pathname |-> pathname, next |-> next ]

\* the URL the middleware redirects a request to, or None for next()
middleware(url, isLoggedIn) ==
    IF ~isLoggedIn /\ url.pathname # "/login"
    THEN Some(URL("/login", IF url.pathname # "/" THEN Some(url.pathname) ELSE None))
    ELSE IF isLoggedIn /\ url.pathname = "/login" THEN Some(URL("/", None))
    ELSE None

\* the URL a request ends at when the browser follows the redirects
RECURSIVE Follow(_, _)
Follow(url, isLoggedIn) ==
    IF middleware(url, isLoggedIn) = None THEN url
    ELSE Follow(middleware(url, isLoggedIn)[1], isLoggedIn)

\* the number of redirects followed
RECURSIVE Hops(_, _)
Hops(url, isLoggedIn) ==
    IF middleware(url, isLoggedIn) = None THEN 0
    ELSE 1 + Hops(middleware(url, isLoggedIn)[1], isLoggedIn)

\* the browser goes to a path: the page it ends at is mounted anew
Navigate(pathname, isLoggedIn) ==
    /\ location' = Follow(URL(pathname, None), isLoggedIn)
    /\ loginPage' = NoLoginPage
    /\ dashboard' = NoDashboard
    /\ profilePage' = NoProfilePage

\* a link followed or an address typed
request(pathname) ==
    /\ Navigate(pathname, authMarker)
    /\ UNCHANGED << session, authMarker >>
    /\ UNCHANGED << dbVars, pageVars, sheet, settingsVars, workspaceVars, driveVars >>

syncSessionOnLoad ==
    /\ location.pathname = "/login"
    /\ IF session # None
       THEN /\ authMarker' = TRUE
            /\ Navigate("/", TRUE)
       ELSE /\ authMarker' = FALSE
            /\ UNCHANGED << location, loginPage, dashboard, profilePage >>
    /\ UNCHANGED session
    /\ UNCHANGED << dbVars, pageVars, sheet, settingsVars, workspaceVars, driveVars >>

setMode(mode) ==
    /\ location.pathname = "/login"
    /\ loginPage' = [loginPage EXCEPT !.mode = mode]
    /\ UNCHANGED << session, authMarker, location, dashboard, profilePage >>
    /\ UNCHANGED << dbVars, pageVars, sheet, settingsVars, workspaceVars, driveVars >>

\* outcome: "session" (signed in), "no session" (signed up, the e-mail is
\* still to be confirmed), "error"
handleSubmit(user, outcome) ==
    /\ location.pathname = "/login"
    /\ loginPage.mode = "signin" => outcome # "no session"
    /\ IF outcome = "session"
       THEN /\ session' = Some(user)
            /\ authMarker' = TRUE
            /\ Navigate("/", TRUE)
       ELSE /\ loginPage' = [loginPage EXCEPT !.status =
                   IF outcome = "error" THEN "Error"
                   ELSE "Signed up (If email confirmation is on, check your inbox.)"]
            /\ UNCHANGED << session, authMarker, location, dashboard, profilePage >>
    /\ UNCHANGED << dbVars, pageVars, sheet, settingsVars, workspaceVars, driveVars >>

handleSignOut(ok) ==
    /\ location.pathname = "/login"
    /\ IF ok
       THEN /\ session' = None
            /\ authMarker' = FALSE
            /\ loginPage' = [loginPage EXCEPT !.status = "Signed out"]
       ELSE /\ loginPage' = [loginPage EXCEPT !.status = "Error"]
            /\ UNCHANGED << session, authMarker >>
    /\ UNCHANGED << location, dashboard, profilePage >>
    /\ UNCHANGED << dbVars, pageVars, sheet, settingsVars, workspaceVars, driveVars >>

\* Home.loadDashboardAndBands, as far as the session goes
loadDashboardAndBands(sessionError) ==
    /\ location.pathname = "/"
    /\ dashboard' = IF sessionError
                    THEN [ status |-> "Session error", userEmail |-> None ]
                    ELSE [ status |-> "Connected to Supabase (OK)", userEmail |-> session ]
    /\ UNCHANGED << session, authMarker, location, loginPage, profilePage >>
    /\ UNCHANGED << dbVars, pageVars, sheet, settingsVars, workspaceVars, driveVars >>

\* Home.signOut: supabase.auth.signOut(), then loadDashboardAndBands()
HomeSignOut(ok, sessionError) ==
    /\ location.pathname = "/"
    /\ session' = IF ok THEN None ELSE session
    /\ dashboard' = IF sessionError
                    THEN [ status |-> "Session error", userEmail |-> None ]
                    ELSE [ status |-> "Connected to Supabase (OK)", userEmail |-> session' ]
    /\ UNCHANGED << authMarker, location, loginPage, profilePage >>
    /\ UNCHANGED << dbVars, pageVars, sheet, settingsVars, workspaceVars, driveVars >>

loadProfile ==
    /\ location.pathname = "/profile"
    /\ profilePage' = [ email |-> session, loading |-> FALSE ]
    /\ UNCHANGED << session, authMarker, location, loginPage, dashboard >>
    /\ UNCHANGED << dbVars, pageVars, sheet, settingsVars, workspaceVars, driveVars >>

\* ProfilePage.signOut
ProfileSignOut(ok) ==
    /\ location.pathname = "/profile"
    /\ session' = IF ok THEN None ELSE session
    /\ authMarker' = FALSE
    /\ Navigate("/login", FALSE)
    /\ UNCHANGED << dbVars, pageVars, sheet, settingsVars, workspaceVars, driveVars >>

(***************************************************************************)
(* The band settings page: finance settings.  A percentage field holds the *)
(* text typed; Number(text) is a finite number (in thousandths of a        *)
(* percent) or NaN.                                                        *)
(***************************************************************************)
\* the texts of a percentage field
InputChoices == {"", "0", "35", "100.01", "-1", "abc"}

\* Number(text)
NumberOf(text) ==
    CASE text = ""       -> [ finite |-> TRUE,  value |-> 0 ]
      [] text = "0"      -> [ finite |-> TRUE,  value |-> 0 ]
      [] text = "35"     -> [ finite |-> TRUE,  value |-> 35000 ]
      [] text = "100.01" -> [ finite |-> TRUE,  value |-> 100010 ]
      [] text = "-1"     -> [ finite |-> TRUE,  value |-> -1000 ]
      [] text = "abc"    -> [ finite |-> FALSE, value |-> 0 ]      \* NaN

\* String(n) of a stored percentage
StringOf(n) ==
    CASE n = 0     -> "0"
      [] n = 35000 -> "35"

\* every comparison with NaN is false
LessThan(p, n) == p.finite /\ p.value < n
GreaterThan(p, n) == p.finite /\ p.value > n

\* !Number.isFinite(parsed) || parsed < 0 || parsed > 100, without the
\* isFinite test
OutOfRangeOnly(p) == LessThan(p, 0) \/ GreaterThan(p, 100000)

\* !Number.isFinite(parsed) || parsed < 0 || parsed > 100
NotAPercentage(p) == ~p.finite \/ LessThan(p, 0) \/ GreaterThan(p, 100000)

loadBandSettings ==
    LET active == SelectActive(members)
        me     == { i \in 1..Len(active) : active[i].user_id = ViewerUser }
    IN  /\ IF me = {}
           THEN UNCHANGED settingsVars
           ELSE /\ currentUserRole' = active[CHOOSE i \in me : TRUE].role
                /\ savingsPercentInput' = StringOf(FinancePercent(finance, "savings_percent"))
                /\ managerPercentInput' = StringOf(FinancePercent(finance, "manager_percent"))
                /\ agentPercentInput' = StringOf(FinancePercent(finance, "agent_percent"))
                /\ UNCHANGED financeStatus
        /\ UNCHANGED << dbVars, pageVars, sheet, workspaceVars,
                    authVars, driveVars >>

\* onChange of the three percentage fields
setSavingsPercentInput(text) ==
    /\ savingsPercentInput' = text
    /\ UNCHANGED << dbVars, pageVars, sheet, workspaceVars, currentUserRole, financeStatus,
                    managerPercentInput, agentPercentInput,
                    authVars, driveVars >>

setManagerPercentInput(text) ==
    /\ managerPercentInput' = text
    /\ UNCHANGED << dbVars, pageVars, sheet, workspaceVars, currentUserRole, financeStatus,
                    savingsPercentInput, agentPercentInput,
                    authVars, driveVars >>

setAgentPercentInput(text) ==
    /\ agentPercentInput' = text
    /\ UNCHANGED << dbVars, pageVars, sheet, workspaceVars, currentUserRole, financeStatus,
                    savingsPercentInput, managerPercentInput,
                    authVars, driveVars >>

handleSaveFinanceSettings(upsertOk) ==
    LET parsedSavings == NumberOf(savingsPercentInput)
        parsedManager == NumberOf(managerPercentInput)
        parsedAgent   == NumberOf(agentPercentInput)
    IN  /\ IF NotAPercentage(parsedSavings)
           THEN /\ financeStatus' = "Savings Withhold % must be between 0 and 100."
                /\ UNCHANGED finance
           ELSE IF NotAPercentage(parsedManager)
           THEN /\ financeStatus' = "Manager % must be between 0 and 100."
                /\ UNCHANGED finance
           ELSE IF NotAPercentage(parsedAgent)
           THEN /\ financeStatus' = "Agent % must be between 0 and 100."
                /\ UNCHANGED finance
           ELSE IF ~(currentUserRole = "owner" \/ currentUserRole = "manager")
           THEN /\ financeStatus' = "Only owners/managers can update finance settings."
                /\ UNCHANGED finance
           ELSE IF ~upsertOk
           THEN /\ financeStatus' = "Error saving finance settings"
                /\ UNCHANGED finance
           ELSE /\ finance' = Some([ savings_percent |-> parsedSavings.value,
                                     manager_percent |-> parsedManager.value,
                                     agent_percent   |-> parsedAgent.value ])
                /\ financeStatus' = "Finance settings saved."
        /\ UNCHANGED << members, cuts, ledger, pageVars, sheet, workspaceVars, currentUserRole,
                        savingsPercentInput, managerPercentInput, agentPercentInput,
                    authVars, driveVars >>

(***************************************************************************)
(* Initial states.                                                         *)
(***************************************************************************)
\* useState(...) of SettlementPage; no export requested yet
PageInit ==
    /\ loading = TRUE /\ error = NoError /\ status = Null
    /\ rows = << >> /\ canEdit = FALSE
    /\ totalIncomeCents = 0 /\ totalExpenseCents = 0
    /\ savingsPercent = 0 /\ managerPercent = 0 /\ agentPercent = 0
    /\ sheet = NoSheet

\* useState(...) of BandSettingsPage
SettingsPageInit ==
    /\ currentUserRole = Null /\ financeStatus = Null
    /\ savingsPercentInput = "0" /\ managerPercentInput = "0" /\ agentPercentInput = "0"

\* no request under way, no invite page open
NoRequests ==
    /\ leaveRequests = [u \in Users |-> NoLeave]
    /\ deleteRequests = [u \in Users |-> NoDelete]
    /\ invitePage = [ invite |-> None, status |-> Null, pc |-> "idle" ]

\* a browser without session and cookie, at the login page
SignedOut ==
    /\ session = None /\ authMarker = FALSE /\ location = URL("/login", None)
    /\ loginPage = NoLoginPage /\ dashboard = NoDashboard /\ profilePage = NoProfilePage

\* no drive computed, no destination set, no recompute request made
NoDrives ==
    /\ driveRows = [d \in {} |-> DriveRow(d, 0)] /\ destinations = {}
    /\ recomputeResponse = NoResponse /\ clock = 0

\* a band with the one tour being settled, no days planned, nobody invited
ExtraInit ==
    /\ SignedOut
    /\ NoDrives
    /\ SettingsPageInit
    /\ band = TRUE /\ tours = {1} /\ days = {}
    /\ dayRows = [t \in DayTables |-> {}]
    /\ invites = << >>
    /\ NoRequests


Entry(type, amount) == [ entry_type |-> type, category |-> "other", amount_cents |-> amount ]

FinanceRow(s, m, a) == [ savings_percent |-> s, manager_percent |-> m, agent_percent |-> a ]

\* a band of count active members, the creator its owner
Band(count) == [i \in 1..count |-> MemberRow(i, IF i = 1 THEN "owner" ELSE "member")]

\* the tour of the worked example: $1000.00 in, $200.00 out, manager 10%,
\* agent 5%, savings 10%
ExampleLedger == << Entry("income", 100000), Entry("expense", 20000) >>
ExampleFinance == Some(FinanceRow(10000, 10000, 5000))

\* Saved cuts and a band that grows and shrinks: cuts are saved as loaded,
\* members join and leave, the page is loaded and the export requested.
Init ==
    /\ members = Band(1)
    /\ cuts = NoCuts
    /\ finance = ExampleFinance
    /\ ledger = ExampleLedger
    /\ PageInit
    /\ ExtraInit

Next ==
    \/ loadPage
    \/ \E upsertOk \in BOOLEAN : saveCuts(upsertOk)
    \/ exportGET
    \/ joinBand
    \/ \E i \in 1..MaxMembers : leaveBand(i)

Spec == Init /\ [][Next]_vars

\* Editing and saving cuts: a band of up to MaxMembers members, cuts typed with
\* three decimals, saved and loaded again.
InitSave ==
    /\ \E count \in 1..MaxMembers : members = Band(count)
    /\ cuts = NoCuts
    /\ finance = ExampleFinance
    /\ ledger = ExampleLedger
    /\ PageInit
    /\ ExtraInit

NextSave ==
    \/ loadPage
    \/ \E index \in 1..MaxMembers, next \in FineCutChoices : editCut(index, next)
    \/ \E upsertOk \in BOOLEAN : saveCuts(upsertOk)

SpecSave == InitSave /\ [][NextSave]_vars

\* The equal split: bands of every size up to MaxCount, no cut saved.
InitSplit ==
    /\ \E count \in 1..MaxCount : members = Band(count)
    /\ cuts = NoCuts
    /\ finance = ExampleFinance
    /\ ledger = ExampleLedger
    /\ PageInit
    /\ ExtraInit

NextSplit == loadPage \/ exportGET

SpecSplit == InitSplit /\ [][NextSplit]_vars

\* The figures: ledgers of up to MaxEntries entries, every finance row.
Entries == { Entry(type, amount) : type \in {"income", "expense"}, amount \in AmountChoices }

Ledgers == UNION { [1..len -> Entries] : len \in 0..MaxEntries }

FinanceRows ==
    {NoRow} \cup { Some(FinanceRow(s, m, a)) : s \in PercentChoices, m \in PercentChoices,
                                               a \in PercentChoices }

InitFigures ==
    /\ members = Band(2)
    /\ cuts = NoCuts
    /\ finance \in FinanceRows
    /\ ledger \in Ledgers
    /\ PageInit
    /\ ExtraInit

NextFigures == loadPage \/ exportGET

SpecFigures == InitFigures /\ [][NextFigures]_vars

\* The payouts: every distributable amount of -MaxCents .. MaxCents, cuts typed
\* into the page.
SmallLedgers ==
    { << >> } \cup { << Entry(type, amount) >> : type \in {"income", "expense"},
                                                 amount \in 1..MaxCents }

InitPayout ==
    /\ \E count \in 1..MaxMembers : members = Band(count)
    /\ cuts = NoCuts
    /\ finance = NoRow
    /\ ledger \in SmallLedgers
    /\ PageInit
    /\ ExtraInit

NextPayout ==
    \/ loadPage
    \/ \E index \in 1..MaxMembers, next \in CutChoices : editCut(index, next)

SpecPayout == InitPayout /\ [][NextPayout]_vars


\* Refused saves: cuts typed that total 100 with one below zero, or that miss
\* 100 by more than 0.01.
InitRefuse ==
    /\ \E count \in 1..MaxMembers : members = Band(count)
    /\ cuts = NoCuts
    /\ finance = ExampleFinance
    /\ ledger = ExampleLedger
    /\ PageInit
    /\ ExtraInit

NextRefuse ==
    \/ loadPage
    \/ \E index \in 1..MaxMembers, next \in RefusedCutChoices \cup {50000} :
           editCut(index, next)
    \/ \E upsertOk \in BOOLEAN : saveCuts(upsertOk)

SpecRefuse == InitRefuse /\ [][NextRefuse]_vars


\* Finance settings: the viewer holds any role in a band of two; the three
\* fields are typed into and the form submitted.
InitSettings ==
    /\ \E r \in Roles : members = << MemberRow(1, r), MemberRow(2, "owner") >>
    /\ cuts = NoCuts
    /\ finance = NoRow
    /\ ledger = << >>
    /\ PageInit
    /\ ExtraInit

NextSettings ==
    \/ loadBandSettings
    \/ \E text \in InputChoices : setSavingsPercentInput(text)
    \/ \E text \in InputChoices : setManagerPercentInput(text)
    \/ \E text \in InputChoices : setAgentPercentInput(text)
    \/ \E upsertOk \in BOOLEAN : handleSaveFinanceSettings(upsertOk)

SpecSettings == InitSettings /\ [][NextSettings]_vars


\* Stored data of every shape: rosters of up to MaxRoster members, each active
\* or not, each with or without a cut row; a cut row holds cut_percent, or only
\* the older percent, or neither.  The page is loaded and the export requested.
Rosters ==
    UNION { { [i \in 1..count |->
                 [ id |-> i, user_id |-> i,
                   role |-> IF i = 1 THEN "owner" ELSE "member",
                   is_active |-> flags[i] ]] : flags \in [1..count -> BOOLEAN] }
            : count \in 1..MaxRoster }

StoredCutRows(i) ==
    { [ id |-> i, cut_percent |-> Some(40000), percent |-> Some(0) ],
      [ id |-> i, cut_percent |-> None,        percent |-> Some(24980) ],
      [ id |-> i, cut_percent |-> None,        percent |-> None ] }

CutTables(count) ==
    UNION { { t \in [with -> UNION { StoredCutRows(i) : i \in with }] :
                  \A i \in with : t[i].id = i }
            : with \in SUBSET (1..count) }

LossLedger == << Entry("income", 20000), Entry("expense", 100000) >>

InitResolve ==
    /\ members \in Rosters
    /\ cuts \in CutTables(Len(members))
    /\ finance = ExampleFinance
    /\ ledger \in { ExampleLedger, LossLedger }
    /\ PageInit
    /\ ExtraInit

NextResolve ==
    \/ loadPage
    \/ exportGET

SpecResolve == InitResolve /\ [][NextResolve]_vars


\* Leaving: bands of two or three active members, at least one an owner; any
\* of them asks to leave, the requests interleaved.
Bands ==
    UNION { { [i \in 1..count |-> MemberRow(i, roles[i])] :
                  roles \in { r \in [1..count -> {"owner", "member"}] :
                                 \E i \in 1..count : r[i] = "owner" } }
            : count \in 2..MaxRoster }

InitLeave ==
    /\ members \in Bands
    /\ cuts = NoCuts
    /\ finance = NoRow
    /\ ledger = << >>
    /\ PageInit
    /\ ExtraInit

NextLeave ==
    \E u \in Users :
        \/ leaveReadMembership(u)
        \/ leaveCountOwners(u)
        \/ leaveUpdate(u)

SpecLeave == InitLeave /\ [][NextLeave]_vars


\* Deleting the workspace: the first member holds any role, active or not,
\* the second is an active owner, the third user is no member; the band has
\* no tour, a tour without days, or a tour with a day and rows of every
\* table.  Any user asks for the deletion, every call may fail.
DeleteRosters ==
    { << [ id |-> 1, user_id |-> 1, role |-> r, is_active |-> a ], MemberRow(2, "owner") >> :
          r \in Roles, a \in BOOLEAN }

SavedCut(i, percent) == [ id |-> i, cut_percent |-> Some(percent), percent |-> Some(percent) ]

InitDelete ==
    /\ members \in DeleteRosters
    /\ band = TRUE
    /\ \/ /\ tours = {} /\ days = {} /\ dayRows = [t \in DayTables |-> {}]
          /\ driveRows = [d \in {} |-> DriveRow(d, 0)] /\ destinations = {}
          /\ cuts = NoCuts /\ ledger = << >> /\ finance = NoRow /\ invites = << >>
       \/ /\ tours = {1} /\ days = {} /\ dayRows = [t \in DayTables |-> {}]
          /\ driveRows = [d \in {} |-> DriveRow(d, 0)] /\ destinations = {}
          /\ cuts = NoCuts /\ ledger = ExampleLedger /\ finance = ExampleFinance
          /\ invites = << >>
       \/ /\ tours = {1} /\ days = { Day(1, 1), Day(2, 2) }
          /\ dayRows = [t \in DayTables |-> IF t = "day_drives" THEN {2} ELSE {1, 2}]
          /\ driveRows = [d \in {2} |-> DriveRow(1, 0)] /\ destinations = {1, 2}
          /\ cuts = [m \in {2} |-> SavedCut(2, 100000)] /\ ledger = ExampleLedger
          /\ finance = ExampleFinance /\ invites = << PendingInvite(1, "member") >>
    /\ PageInit
    /\ SettingsPageInit
    /\ NoRequests
    /\ SignedOut
    /\ recomputeResponse = NoResponse /\ clock = 0

NextDelete ==
    \E u \in Users :
        \/ deleteReadMembership(u)
        \/ \E ok \in BOOLEAN : deleteReadTours(u, ok)
        \/ \E ok \in BOOLEAN : deleteReadDays(u, ok)
        \/ \E ok \in BOOLEAN : deleteRows(u, ok)
        \/ \E ok \in BOOLEAN : deleteBand(u, ok)

SpecDelete == InitDelete /\ [][NextDelete]_vars


\* Invites: an owner and a member; invites are created and revoked while the
\* invitee opens invite pages and accepts.
InitInvite ==
    /\ members = Band(2)
    /\ cuts = NoCuts
    /\ finance = NoRow
    /\ ledger = << >>
    /\ PageInit
    /\ ExtraInit

NextInvite ==
    \/ \E r \in Roles : handleCreateInvite(r)
    \/ \E inviteId \in 1..MaxInvites : handleRevokeInvite(inviteId)
    \/ \E inviteId \in 1..MaxInvites : loadInvitePage(inviteId)
    \/ acceptInsertMember
    \/ acceptUpdateInvite

SpecInvite == InitInvite /\ [][NextInvite]_vars


\* Leaving and coming back: invites are created and revoked while the invitee
\* accepts them and leaves the band; the invitee does one thing at a time, the
\* accept handler and the leave request never overlap.
InitRejoin == InitInvite

NextRejoin ==
    \/ \E r \in Roles : handleCreateInvite(r)
    \/ \E inviteId \in 1..MaxInvites : handleRevokeInvite(inviteId)
    \/ leaveRequests[InviteeUser].pc = "idle" /\ \E inviteId \in 1..MaxInvites : loadInvitePage(inviteId)
    \/ leaveRequests[InviteeUser].pc = "idle" /\ acceptInsertMember
    \/ acceptUpdateInvite
    \/ invitePage.pc = "idle" /\ leaveReadMembership(InviteeUser)
    \/ leaveCountOwners(InviteeUser)
    \/ leaveUpdate(InviteeUser)

SpecRejoin == InitRejoin /\ [][NextRejoin]_vars


\* Signing in and out: one browser, any of the accounts, every page's
\* sign-in and sign-out, any path requested.
InitAuth == InitInvite

NextAuth ==
    \/ \E pathname \in Paths : request(pathname)
    \/ syncSessionOnLoad
    \/ \E mode \in {"signin", "signup"} : setMode(mode)
    \/ \E user \in Users, outcome \in {"session", "no session", "error"} :
           handleSubmit(user, outcome)
    \/ \E ok \in BOOLEAN : handleSignOut(ok)
    \/ \E sessionError \in BOOLEAN : loadDashboardAndBands(sessionError)
    \/ \E ok \in BOOLEAN, sessionError \in BOOLEAN : HomeSignOut(ok, sessionError)
    \/ loadProfile
    \/ \E ok \in BOOLEAN : ProfileSignOut(ok)

SpecAuth == InitAuth /\ [][NextAuth]_vars


\* Drives: a tour of up to MaxDays days, the later day with the smaller id, no
\* two days or one pair of days on one date; any of them with a destination,
\* any day but the first with a drive computed from the day before; logistics
\* are saved and recompute requests made, for days of the tour, for a day that
\* is none, and for the whole tour.
DaySets ==
    UNION { { { Day(i, IF tie > 0 /\ i = tie THEN n - i ELSE n + 1 - i) : i \in 1..n }
              : tie \in 0..(IF n = 0 THEN 0 ELSE n - 1) }
            : n \in 0..MaxDays }

InitDrives ==
    /\ members = Band(2)
    /\ cuts = NoCuts
    /\ finance = NoRow
    /\ ledger = << >>
    /\ PageInit
    /\ SettingsPageInit
    /\ NoRequests
    /\ SignedOut
    /\ band = TRUE /\ tours = {1} /\ invites = << >>
    /\ days \in DaySets
    /\ destinations \in SUBSET { d.id : d \in days }
    /\ \E order \in DaysByDate(1) :
          \E computed \in SUBSET (2..Len(order)) :
             driveRows = [d \in { order[i] : i \in computed } |->
                            DriveRow(order[FindIndex(order, d) - 1], 0)]
    /\ dayRows = [t \in DayTables |-> IF t = "day_drives" THEN DOMAIN driveRows
                                      ELSE IF t = "day_logistics" THEN destinations
                                      ELSE {}]
    /\ recomputeResponse = NoResponse /\ clock = 0

\* one request from each initial state: requests that fail early, requests for
\* one day with each outcome of its two pairs, requests for the whole tour with
\* one outcome for every pair
NextDrives ==
    \/ clock = 0 /\ \E dayId \in {None} \cup { Some(d) : d \in 1..(MaxDays + 1) } :
                        POST(FALSE, 1, dayId, [k \in 1..MaxDays |-> "ok"])
    \/ clock = 0 /\ \E dayId \in {None} \cup { Some(d) : d \in 1..(MaxDays + 1) } :
                        POST(TRUE, 2, dayId, [k \in 1..MaxDays |-> "ok"])
    \/ clock = 0 /\ \E d \in 1..(MaxDays + 1), outcomes \in [1..2 -> Outcomes] :
                        POST(TRUE, 1, Some(d), outcomes)
    \/ clock = 0 /\ \E outcome \in Outcomes :
                        POST(TRUE, 1, None, [k \in 1..MaxDays |-> outcome])
    \/ clock = 0 /\ \E dayId \in 1..MaxDays, hasCoordinates \in BOOLEAN :
                        saveLog(dayId, hasCoordinates, FALSE, TRUE, [k \in 1..2 |-> "ok"])
    \/ clock = 0 /\ \E dayId \in 1..MaxDays, hasCoordinates \in BOOLEAN :
                        saveLog(dayId, hasCoordinates, TRUE, FALSE, [k \in 1..2 |-> "ok"])
    \/ clock = 0 /\ \E dayId \in 1..MaxDays, hasCoordinates \in BOOLEAN,
                        outcomes \in [1..2 -> Outcomes] :
                        saveLog(dayId, hasCoordinates, TRUE, TRUE, outcomes)

SpecDrives == InitDrives /\ [][NextDrives]_vars


\* The categories of the export: ledgers of up to MaxEntries entries of either
\* type, in every category of the tour page, in a category of the other type,
\* written in capitals, unknown, or missing.
Categories ==
    { "guarantee", "buyout", "merch_sales", "gas", "food", "lodging", "repairs", "other",
      "Gas", "parking", Null }

CategoryEntries ==
    { [ entry_type |-> type, category |-> category, amount_cents |-> amount ] :
        type \in {"income", "expense"}, category \in Categories, amount \in {90, 20000} }

InitCategories ==
    /\ members = Band(2)
    /\ cuts = NoCuts
    /\ finance = ExampleFinance
    /\ ledger \in UNION { [1..len -> CategoryEntries] : len \in 0..MaxEntries }
    /\ PageInit
    /\ ExtraInit

NextCategories == exportGET

SpecCategories == InitCategories /\ [][NextCategories]_vars


(***************************************************************************)
(* Properties.                                                             *)
(***************************************************************************)
ActiveMembers == SelectActive(members)

Exported == sheet # NoSheet

SheetPercents == [i \in 1..Len(sheet[1].payoutRows) |-> sheet[1].payoutRows[i].cutPercent]

\* b (thousandths, a whole number of hundredths) is num / den thousandths
\* rounded to two decimals, a half up
IsRound2Of(b, num, den) ==
    /\ b % 10 = 0
    /\ 2 * b * den <= 2 * num + 10 * den
    /\ 2 * num + 10 * den < 2 * b * den + 20 * den

(* C1: for every member count n >= 1 the percentages of makeEqualSplits(n),  *)
(* of the page and of the export route, sum to exactly 100.00; a tour with   *)
(* no saved cuts loads with a cut total of 100.00% and passes cutsValid, and *)
(* its export carries percentages that sum to 100.00.                        *)
C1_EqualSplitsSumTo100 ==
    /\ SumSeq(makeEqualSplits(Len(ActiveMembers))) = 100000
    /\ SumSeq(exportMakeEqualSplits(Len(ActiveMembers))) = 100000
    /\ Rendered => /\ SumSeq(RowPercents(rows)) = 100000
                   /\ totalCuts = 100000
                   /\ cutsValid
    /\ Exported => SumSeq(SheetPercents) = 100000

\* seven members, loaded and exported: 6 x 14.29 and a last share of 14.26
C1_Witness ==
    /\ Rendered /\ Exported
    /\ Len(rows) = 7 /\ rows[1].cutPercent = 14290 /\ rows[7].cutPercent = 14260
    /\ SheetPercents = RowPercents(rows)

(* C7: in an equal split of n members every member except the last in        *)
(* creation order receives base = round2(100 / n) and the last receives base *)
(* plus the remainder 100 - n x base; three members get 33.33, 33.33, 33.34. *)
IsEqualSplit(percents) ==
    LET n    == Len(percents)
        base == IF n = 1 THEN 100000 ELSE percents[1]
    IN  /\ n >= 1
        /\ IsRound2Of(base, 100000, n)
        /\ \A i \in 1..(n - 1) : percents[i] = base
        /\ percents[n] = base + (100000 - n * base)
        /\ n = 3 => percents = << 33330, 33330, 33340 >>

C7_LastMemberAbsorbsRemainder ==
    /\ Rendered => IsEqualSplit(RowPercents(rows))
    /\ Exported => IsEqualSplit(SheetPercents)

\* three members, loaded and exported
C7_Witness ==
    /\ Rendered /\ Exported
    /\ RowPercents(rows) = << 33330, 33330, 33340 >>
    /\ SheetPercents = << 33330, 33330, 33340 >>


(* C5: income 100000, manager 10%, agent 5%, expenses 20000, savings 10%     *)
(* give manager fee 10000, agent fee 5000, net 65000, savings 6500 and       *)
(* distributable net 58500, on the page and in the export.                   *)
C5_WorkedExample ==
    /\ ( /\ Rendered
         /\ totalIncomeCents = 100000 /\ totalExpenseCents = 20000
         /\ managerPercent = 10000 /\ agentPercent = 5000 /\ savingsPercent = 10000 )
       => /\ managerFeeCents = 10000
          /\ agentFeeCents = 5000
          /\ netAfterFeesAndExpensesCents = 65000
          /\ savingsAmountCents = 6500
          /\ distributableNetCents = 58500
    /\ ( /\ Exported
         /\ sheet[1].totalIncomeCents = 100000 /\ sheet[1].totalExpenseCents = 20000
         /\ sheet[1].managerPercent = 10000 /\ sheet[1].agentPercent = 5000
         /\ sheet[1].savingsPercent = 10000 )
       => /\ sheet[1].managerFeeCents = 10000
          /\ sheet[1].agentFeeCents = 5000
          /\ sheet[1].netAfterFeesAndExpensesCents = 65000
          /\ sheet[1].savingsAmountCents = 6500
          /\ sheet[1].distributableNetCents = 58500

\* the example's ledger and settings, loaded and exported
C5_Witness ==
    /\ Rendered /\ Exported
    /\ totalIncomeCents = 100000 /\ totalExpenseCents = 20000
    /\ managerPercent = 10000 /\ agentPercent = 5000 /\ savingsPercent = 10000
    /\ sheet[1].totalIncomeCents = 100000 /\ sheet[1].totalExpenseCents = 20000
    /\ sheet[1].managerPercent = 10000 /\ sheet[1].agentPercent = 5000
    /\ sheet[1].savingsPercent = 10000

(* C6: whenever net after fees and expenses is zero or negative the savings  *)
(* withholding is 0, for every savings percent; it is never negative.        *)
C6_NoSavingsOnNonPositiveNet ==
    /\ netAfterFeesAndExpensesCents <= 0 => savingsAmountCents = 0
    /\ savingsAmountCents >= 0
    /\ Exported =>
          /\ sheet[1].netAfterFeesAndExpensesCents <= 0 => sheet[1].savingsAmountCents = 0
          /\ sheet[1].savingsAmountCents >= 0

\* a net below zero with 35% savings set, on the page and in the export
C6_Witness ==
    /\ Rendered /\ Exported
    /\ netAfterFeesAndExpensesCents < 0 /\ savingsPercent = 35000
    /\ sheet[1].netAfterFeesAndExpensesCents < 0 /\ sheet[1].savingsPercent = 35000

\* cents x percent / 100 rounded to the nearest cent, a half up (cents >= 0)
RoundHalfUpShare(cents, t) ==
    LET n == MulDivMod(cents, t)
    IN  n[1] + (IF n[2] >= 50000 THEN 1 ELSE 0)

(* C9: the manager fee and the agent fee are each                            *)
(* round-half-up(totalIncome x percent / 100) to the nearest cent, computed  *)
(* from gross income only.                                                   *)
C9_FeesRoundHalfUp ==
    /\ Rendered =>
          /\ managerFeeCents = RoundHalfUpShare(totalIncomeCents, managerPercent)
          /\ agentFeeCents = RoundHalfUpShare(totalIncomeCents, agentPercent)
    /\ Exported =>
          /\ sheet[1].managerFeeCents =
                 RoundHalfUpShare(sheet[1].totalIncomeCents, sheet[1].managerPercent)
          /\ sheet[1].agentFeeCents =
                 RoundHalfUpShare(sheet[1].totalIncomeCents, sheet[1].agentPercent)

\* p is cents x percent / 100 rounded to a nearest integer
IsNearestShare(p, cents, t) ==
    LET n == MulDivMod(Abs(cents), t)
        q == Abs(p)
    IN  /\ (p = 0 \/ (p < 0) = (cents < 0))
        /\ \/ q = n[1] /\ n[2] <= 50000
           \/ q = n[1] + 1 /\ n[2] >= 50000

(* C10: distributable net is (income - manager fee - agent fee - expenses)   *)
(* minus the savings amount; a negative net propagates unchanged as the      *)
(* distributable net, and each member payout is then                         *)
(* round(distributable x percent / 100) of that negative amount.             *)
C10_NegativeNetPropagates ==
    /\ Rendered =>
          /\ distributableNetCents =
                 (totalIncomeCents - managerFeeCents - agentFeeCents - totalExpenseCents)
                     - savingsAmountCents
          /\ (totalIncomeCents - managerFeeCents - agentFeeCents - totalExpenseCents) < 0 =>
                /\ distributableNetCents =
                       totalIncomeCents - managerFeeCents - agentFeeCents - totalExpenseCents
                /\ \A i \in 1..Len(rows) :
                       /\ payoutCents(rows[i]) <= 0
                       /\ IsNearestShare(payoutCents(rows[i]), distributableNetCents,
                                         rows[i].cutPercent)
    /\ Exported =>
          LET x   == sheet[1]
              net == x.totalIncomeCents - x.managerFeeCents - x.agentFeeCents
                         - x.totalExpenseCents
          IN  /\ x.distributableNetCents = net - x.savingsAmountCents
              /\ net < 0 =>
                    /\ x.distributableNetCents = net
                    /\ \A i \in 1..Len(x.payoutRows) :
                           /\ x.payoutRows[i].payoutCents <= 0
                           /\ IsNearestShare(x.payoutRows[i].payoutCents,
                                             x.distributableNetCents,
                                             x.payoutRows[i].cutPercent)

\* fees charged, expenses above what is left, savings set: two payouts below zero
C10_Witness ==
    /\ Rendered /\ Exported
    /\ managerFeeCents > 0 /\ agentFeeCents > 0 /\ savingsPercent > 0
    /\ distributableNetCents < 0
    /\ Len(rows) = 2 /\ payoutCents(rows[1]) < 0 /\ payoutCents(rows[2]) < 0
    /\ sheet[1].distributableNetCents = distributableNetCents
    /\ sheet[1].payoutRows[1].payoutCents < 0

RowPayouts(rs) == [i \in 1..Len(rs) |-> payoutCents(rs[i])]

(* C4: when the member percentages sum to exactly 100, the sum of the member *)
(* payouts differs from the distributable net by at most (memberCount - 1)   *)
(* cents in absolute value.                                                  *)
C4_PayoutSumNearDistributable ==
    ( /\ Rendered
      /\ rows # << >>
      /\ SumSeq(RowPercents(rows)) = 100000 )
    => Abs(SumSeq(RowPayouts(rows)) - distributableNetCents) <= Len(rows) - 1

\* two members at 50% each of an odd distributable net: the payouts are one
\* cent off in total, which is the whole allowance for two members
C4_Witness ==
    /\ Rendered
    /\ Len(rows) = 2
    /\ RowPercents(rows) = << 50000, 50000 >>
    /\ Abs(SumSeq(RowPayouts(rows)) - distributableNetCents) = 1

\* no member of the table has a cut row of the tour
NoSavedCut(table) == \A i \in 1..Len(table) : table[i].bandMemberId \notin DOMAIN cuts

(* C2 as stated: for any list of active members, each with or without a      *)
(* saved cut, the percentages of the payout breakdown sum to exactly 100.00, *)
(* as loaded on the settlement page and as written to the export.            *)
C2_AsStated ==
    /\ (Rendered /\ rows # << >>) => SumSeq(RowPercents(rows)) = 100000
    /\ Exported => SumSeq(SheetPercents) = 100000

(* C2: when no active member has a saved cut for the tour (the equal-split   *)
(* fallback), the percentages of the payout breakdown sum to exactly 100.00, *)
(* as loaded on the settlement page and as written to the export.            *)
C2_FallbackPercentagesSumTo100 ==
    /\ (Rendered /\ rows # << >> /\ NoSavedCut(rows))
           => SumSeq(RowPercents(rows)) = 100000
    /\ (Exported /\ NoSavedCut(sheet[1].payoutRows))
           => SumSeq(SheetPercents) = 100000

\* three active members of four, none with a saved cut, loaded and exported
C2_Witness ==
    /\ Rendered /\ Exported
    /\ Len(members) = 4
    /\ Len(rows) = 3 /\ NoSavedCut(rows)
    /\ Len(sheet[1].payoutRows) = 3 /\ NoSavedCut(sheet[1].payoutRows)
    /\ RowPercents(rows) = << 33330, 33330, 33340 >>
    /\ SheetPercents = RowPercents(rows)

\* the cut percentages of the cuts table for the members of the Cuts table
PersistedPercents == [i \in 1..Len(rows) |-> cuts[rows[i].bandMemberId].cut_percent[1]]

(* C3: after any successful saveCuts, the cut percentages written to the     *)
(* cuts table for the tour's participating members, as persisted (each       *)
(* rounded to 2 decimals), sum to 100.00 within a tolerance of 0.01.         *)
C3_PersistedCutsSumTo100 ==
    status = "Cuts saved." => Abs(SumSeq(PersistedPercents) - 100000) <= 10

\* the percentage and payout columns of a Cuts table
Table(rs) == [i \in 1..Len(rs) |->
                 [ cutPercent |-> rs[i].cutPercent, payoutCents |-> payoutCents(rs[i]) ]]

(* C8: round trip: the percentages of the Cuts table, supplied back as       *)
(* explicit cut overrides for the same members, totals and settings (saved   *)
(* by saveCuts and loaded again), reproduce the identical per-member         *)
(* percentage and payout table.                                              *)
C8_RoundTrip ==
    ( /\ Rendered /\ canEdit
      /\ rows # << >>
      /\ cutsValid
      /\ \A i \in 1..Len(rows) : rows[i].cutPercent >= 0 )
    => Table(LoadRows(ActiveMembers, UpsertCuts(cuts, CutsPayload(rows)))) = Table(rows)

(* C11: when the band has no finance-settings row, all three percentages    *)
(* are taken as 0 instead of failing: both fees and the savings amount are   *)
(* 0 and distributable net is total income minus total expenses, on the      *)
(* page and in the export.                                                   *)
C11_MissingFinanceRowIsAllZero ==
    /\ (finance = NoRow /\ loading = FALSE /\ rows # << >>) =>
          /\ error = NoError
          /\ managerPercent = 0 /\ agentPercent = 0 /\ savingsPercent = 0
          /\ managerFeeCents = 0 /\ agentFeeCents = 0 /\ savingsAmountCents = 0
          /\ distributableNetCents = totalIncomeCents - totalExpenseCents
    /\ (finance = NoRow /\ Exported) =>
          LET x == sheet[1]
          IN  /\ x.managerPercent = 0 /\ x.agentPercent = 0 /\ x.savingsPercent = 0
              /\ x.managerFeeCents = 0 /\ x.agentFeeCents = 0 /\ x.savingsAmountCents = 0
              /\ x.distributableNetCents = x.totalIncomeCents - x.totalExpenseCents

\* no finance row, income above expenses, loaded and exported
C11_Witness ==
    /\ finance = NoRow
    /\ Rendered /\ Exported
    /\ totalIncomeCents > totalExpenseCents /\ totalExpenseCents > 0
    /\ distributableNetCents = totalIncomeCents - totalExpenseCents
    /\ sheet[1].distributableNetCents = distributableNetCents

(* C12: a saveCuts attempt in which the cut total differs from 100.00 by    *)
(* more than 0.01, or in which any cut is negative, writes nothing to the    *)
(* cuts table, leaves every row's percentage and cut id unchanged, and sets  *)
(* a human-readable status message.                                          *)
C12_RefusedSaveWritesNothing ==
    [][ ( /\ \E upsertOk \in BOOLEAN : saveCuts(upsertOk)
          /\ \/ Abs(SumSeq(RowPercents(rows)) - 100000) > 10
             \/ \E i \in 1..Len(rows) : rows[i].cutPercent < 0 )
        => /\ cuts' = cuts
           /\ rows' = rows
           /\ status' \in { "Cuts must total 100.00% before saving.",
                            "Cut percentages must be 0 or greater." } ]_vars

\* cuts of -50 and 150 (total 100.00) refused for the negative one, and
\* nothing written
C12_Witness ==
    /\ status = "Cut percentages must be 0 or greater."
    /\ \E i \in 1..Len(rows) : rows[i].cutPercent < 0
    /\ SumSeq(RowPercents(rows)) = 100000
    /\ cuts = NoCuts

\* the three fields parse to finite numbers in [0, 100]
InputsArePercentages ==
    \A text \in { savingsPercentInput, managerPercentInput, agentPercentInput } :
        /\ NumberOf(text).finite
        /\ NumberOf(text).value >= 0 /\ NumberOf(text).value <= 100000

(* C13: handleSaveFinanceSettings writes band_finance_settings only when all *)
(* three inputs parse to finite numbers in [0,100] and the caller (by the    *)
(* role the page holds) is an owner or manager; in every other case nothing  *)
(* is written and a status message is set; so the percentages stored through *)
(* this operation always lie in [0,100].                                     *)
C13_FinanceSettingsValidated ==
    /\ [][ (\E upsertOk \in BOOLEAN : handleSaveFinanceSettings(upsertOk)) =>
              IF InputsArePercentages /\ currentUserRole \in {"owner", "manager"}
              THEN finance' # finance =>
                       finance' = Some([ savings_percent |-> NumberOf(savingsPercentInput).value,
                                         manager_percent |-> NumberOf(managerPercentInput).value,
                                         agent_percent   |-> NumberOf(agentPercentInput).value ])
              ELSE finance' = finance /\ financeStatus' # Null ]_vars
    /\ [](finance # NoRow =>
              \A field \in {"savings_percent", "manager_percent", "agent_percent"} :
                  finance[1][field] >= 0 /\ finance[1][field] <= 100000)

\* a manager's settings of 35 / 35 / 0 stored, then text that is no number
\* typed and refused
C13_Witness ==
    /\ currentUserRole = "manager"
    /\ finance = Some([ savings_percent |-> 35000, manager_percent |-> 35000,
                        agent_percent |-> 0 ])
    /\ agentPercentInput = "abc"
    /\ financeStatus = "Agent % must be between 0 and 100."

\* the member, percentage and payout columns of the page's Cuts table
PageBreakdown ==
    [i \in 1..Len(rows) |->
        [ bandMemberId |-> rows[i].bandMemberId,
          cutPercent   |-> rows[i].cutPercent,
          payoutCents  |-> payoutCents(rows[i]) ]]

\* the same columns of the workbook's Settlement sheet
SheetBreakdown ==
    [i \in 1..Len(sheet[1].payoutRows) |->
        [ bandMemberId |-> sheet[1].payoutRows[i].bandMemberId,
          cutPercent   |-> sheet[1].payoutRows[i].cutPercent,
          payoutCents  |-> sheet[1].payoutRows[i].payoutCents ]]

(* C14: for the same stored data (ledger entries, finance settings, active   *)
(* members in creation order, active cut rows) the settlement page as loaded *)
(* and the spreadsheet export compute identical manager fee, agent fee, net, *)
(* savings amount, distributable net, and identical per-member percentages   *)
(* and payouts.                                                              *)
C14_PageAndExportAgree ==
    (Rendered /\ rows # << >> /\ Exported) =>
        /\ sheet[1].managerFeeCents = managerFeeCents
        /\ sheet[1].agentFeeCents = agentFeeCents
        /\ sheet[1].netAfterFeesAndExpensesCents = netAfterFeesAndExpensesCents
        /\ sheet[1].savingsAmountCents = savingsAmountCents
        /\ sheet[1].distributableNetCents = distributableNetCents
        /\ SheetBreakdown = PageBreakdown

\* three members, one inactive, one with a cut row holding only percent, one
\* on the equal split: loaded and exported
C14_Witness ==
    /\ Rendered /\ Exported
    /\ Len(members) = 3 /\ Len(rows) = 2
    /\ \E i \in 1..2 : /\ rows[i].cutId # None
                       /\ cuts[rows[i].bandMemberId].cut_percent = None
                       /\ rows[i].cutPercent = 24980
    /\ \E i \in 1..2 : rows[i].cutId = None /\ rows[i].cutPercent = 50000
    /\ SheetBreakdown = PageBreakdown

\* the share of position i in an equal split of 100 among n: 100 / n rounded
\* to two decimals, the last position taking what is left of 100
IsEqualShare(percent, i, n) ==
    \E base \in { 10 * k : k \in (10000 \div n - 1)..(10000 \div n + 1) } :
        /\ IsRound2Of(base, 100000, n)
        /\ percent = IF i < n THEN base ELSE 100000 - (n - 1) * base

\* the percentage the claim resolves for the member at position i of the
\* active members
IsResolvedPercent(percent, i) ==
    LET member == ActiveMembers[i]
    IN  IF member.id \in DOMAIN cuts
        THEN percent = ( IF cuts[member.id].cut_percent # None
                         THEN cuts[member.id].cut_percent[1]
                         ELSE IF cuts[member.id].percent # None
                         THEN cuts[member.id].percent[1]
                         ELSE 0 )
        ELSE IsEqualShare(percent, i, Len(ActiveMembers))

(* C19: each active member's percentage is the saved cut for (tour, member)  *)
(* if one exists (cut_percent, else percent, else 0), otherwise the          *)
(* equal-split share at that member's position, the split being computed     *)
(* over the count of all active members however many of them have saved      *)
(* cuts; inactive members never appear in the breakdown.                     *)
C19_PercentResolution ==
    /\ (Rendered /\ rows # << >>) =>
          /\ Len(rows) = Len(ActiveMembers)
          /\ \A i \in 1..Len(rows) :
                 /\ rows[i].bandMemberId = ActiveMembers[i].id
                 /\ IsResolvedPercent(rows[i].cutPercent, i)
    /\ Exported =>
          /\ Len(sheet[1].payoutRows) = Len(ActiveMembers)
          /\ \A i \in 1..Len(sheet[1].payoutRows) :
                 /\ sheet[1].payoutRows[i].bandMemberId = ActiveMembers[i].id
                 /\ IsResolvedPercent(sheet[1].payoutRows[i].cutPercent, i)

\* three active members: the first with a saved cut of 40, the second with a
\* cut row holding no percentage (0), the third on the split among three
C19_Witness ==
    /\ Rendered /\ Exported
    /\ Len(members) = 3 /\ Len(ActiveMembers) = 3
    /\ RowPercents(rows) = << 40000, 0, 33340 >>
    /\ cuts[2].cut_percent = None /\ cuts[2].percent = None
    /\ 3 \notin DOMAIN cuts
    /\ SheetPercents = RowPercents(rows)

(* C15: owners can leave only if another owner remains: starting from a     *)
(* band with at least one active owner, no sequence or interleaving of leave *)
(* requests (two owners leaving at the same time included) brings the number *)
(* of active owners of the band to zero.                                     *)
C15_AnOwnerRemains == ActiveOwnerCount >= 1

\* the rows of the band in every table but bands
BandRows == << members, cuts, finance, ledger, tours, days, dayRows, invites >>

\* user u holds an active owner membership of the band
IsActiveOwner(u) ==
    \E i \in MembershipOf(u) : members[i].is_active /\ members[i].role = "owner"

References ==
    { << "day_drives", "days" >>, << "day_logistics", "days" >>, << "day_risk", "days" >>,
      << "days", "tours" >>, << "ledger_entries", "tours" >>, << "cuts", "tours" >>,
      << "cuts", "band_members" >>, << "tours", "bands" >>, << "band_invites", "bands" >>,
      << "band_finance_settings", "bands" >>, << "band_members", "bands" >> }

\* the table holds no row of the band
IsEmpty(table) ==
    CASE table \in DayTables               -> dayRows[table] = {}
      [] table = "ledger_entries"          -> ledger = << >>
      [] table = "cuts"                    -> cuts = NoCuts
      [] table = "days"                    -> days = {}
      [] table = "tours"                   -> tours = {}
      [] table = "band_invites"            -> invites = << >>
      [] table = "band_finance_settings"   -> finance = NoRow
      [] table = "band_members"            -> members = << >>
      [] table = "bands"                   -> ~band

Tables == { DeleteOrder[i] : i \in 1..Len(DeleteOrder) }

(* C17: when the delete-workspace request returns ok:true, no row of the     *)
(* band remains in day_drives, day_logistics, day_risk, ledger_entries,      *)
(* cuts, days, tours, band_invites, band_finance_settings or band_members;   *)
(* the bands row is deleted last; rows are always deleted before the rows    *)
(* they reference.                                                           *)
C17_DeleteRemovesEverythingInOrder ==
    /\ []( (\E u \in Users : deleteRequests[u].response = "ok")
              => \A table \in Tables : IsEmpty(table) )
    /\ [][ /\ (band /\ ~band') => \A table \in Tables \ {"bands"} : IsEmpty(table)
           /\ \A ref \in References :
                  (~IsEmpty(ref[2]) /\ IsEmpty(ref[2])') => IsEmpty(ref[1]) ]_vars

\* a band that had a tour, a day, rows of every table and an invite, deleted
C17_Witness ==
    /\ deleteRequests[2].response = "ok"
    /\ ~band
    /\ \A table \in Tables : IsEmpty(table)

(* C18: if a delete-workspace request ends with an error (a step fails, or   *)
(* the band row was not deleted), the band row still exists and the calling  *)
(* owner is still an active owner of it, so the request can be tried again   *)
(* and is not rejected with 403.                                             *)
C18_FailedDeleteCanBeRetried ==
    \A u \in Users :
        deleteRequests[u].response \in {"400", "500"} => band /\ IsActiveOwner(u)

(* C20: once an invite has been revoked, no band membership is created from *)
(* it, under every interleaving of handleRevokeInvite with an invitee who    *)
(* loaded the invite page while it was still pending and then runs           *)
(* handleAcceptInvite.                                                       *)
C20_NoMembershipFromRevokedInvite ==
    [][ ( /\ invitePage.invite # None
          /\ invitePage.invite[1].id \in 1..Len(invites)
          /\ invites[invitePage.invite[1].id].revoked_at )
        => members' = members ]_vars

(* C21: whenever handleAcceptInvite completes without an error status (it  *)
(* goes on to /tours), the accepting user has an active membership in the  *)
(* invite's band with the invite's role, also when the user left the band  *)
(* before and so has a deactivated membership row.                         *)
C21_AcceptedMeansActiveMember ==
    [][ (invitePage.pc = "update invite" /\ invitePage'.pc = "idle")
        => \E i \in 1..Len(members') :
               /\ members'[i].user_id = InviteeUser
               /\ members'[i].is_active
               /\ members'[i].role = invitePage.invite[1].role ]_vars

(* C22: after any sequence of the app's sign-in and sign-out actions (login *)
(* page, dashboard, profile page) the bl-authenticated cookie is set only   *)
(* while a session exists: every successful sign-out leaves it cleared.     *)
C22_MarkerOnlyWithSession == authMarker => session # None

(* C23: a user without a session, also one who has just signed out from any *)
(* page, can always reach the login page: the middleware does not redirect  *)
(* the request for /login elsewhere, and following the middleware's         *)
(* redirects never takes more than one hop.                                 *)
C23_LoginReachableWithoutSession ==
    session = None =>
        /\ middleware(URL("/login", None), authMarker) = None
        /\ \A pathname \in Paths : Hops(URL(pathname, None), authMarker) <= 1

\* a day_drives row that the step adds, removes or rewrites
ChangedDriveRows ==
    { d \in DOMAIN driveRows \cup DOMAIN driveRows' :
        \/ d \in DOMAIN driveRows /\ d \notin DOMAIN driveRows'
        \/ d \notin DOMAIN driveRows /\ d \in DOMAIN driveRows'
        \/ d \in DOMAIN driveRows /\ d \in DOMAIN driveRows' /\ driveRows[d] # driveRows'[d] }

\* the step serves a recompute request that names day d and gets past the
\* tests of the API key and of the tour
ServesRequestFor(d) ==
    /\ clock' = clock + 1
    /\ recomputeResponse'.dayId = Some(d)
    /\ recomputeResponse'.status \notin {"500", "403"}

\* the rows changed are those of d and of the day after it, in one of the
\* date orders
OnlyDayAndNext(d) ==
    \E order \in DaysByDate(1) :
        \A e \in ChangedDriveRows :
            \/ e = d
            \/ FindIndex(order, d) > 0 /\ FindIndex(order, d) < Len(order)
                  /\ e = order[FindIndex(order, d) + 1]

\* of each pair of the request in which a day lacks coordinates, the row of
\* the later day is gone, unless the answer lists an error for it
UnroutablePairsDeleted(d) ==
    \E order \in DaysByDate(1) :
        \A k \in 1..Len(Pairs(order, Some(d))) :
            LET pair == Pairs(order, Some(d))[k]
            IN  ( /\ pair.from \notin destinations' \/ pair.to \notin destinations'
                  /\ pair.to \notin recomputeResponse'.errors )
                => pair.to \notin DOMAIN driveRows'

IsDayOfTour(d) == \E day \in days : day.id = d /\ day.tour_id = 1

KnownCategory ==
    [ income  |-> [ guarantee |-> "guaranteeCents", buyout |-> "buyoutCents",
                    merch_sales |-> "merchCents" ],
      expense |-> [ gas |-> "gasCents", food |-> "foodCents", lodging |-> "lodgingCents",
                    repairs |-> "repairsCents" ] ]

OtherBucket == [ income |-> "otherIncomeCents", expense |-> "otherExpenseCents" ]

\* the one field an entry belongs to
BucketOf(entry) ==
    IF ToLowerCase(entry.category) \in DOMAIN KnownCategory[entry.entry_type]
    THEN KnownCategory[entry.entry_type][ToLowerCase(entry.category)]
    ELSE OtherBucket[entry.entry_type]

(* C25: in the export, for a ledger of income and expense entries, total     *)
(* income is the sum of the guarantee, buyout, merch and other-income totals *)
(* and total expense the sum of the gas, food, lodging, repairs and          *)
(* other-expense totals; every entry is counted in exactly one category, an  *)
(* unrecognised category in the 'other' bucket of its type.                  *)
C25_CategoriesAddUpToTotals ==
    sheet # NoSheet =>
        LET totals == sheet[1].totalCategoryCents
        IN  /\ sheet[1].totalIncomeCents =
                   totals.guaranteeCents + totals.buyoutCents + totals.merchCents
                   + totals.otherIncomeCents
            /\ sheet[1].totalExpenseCents =
                   totals.gasCents + totals.foodCents + totals.lodgingCents
                   + totals.repairsCents + totals.otherExpenseCents
            /\ \A field \in DOMAIN totals :
                   totals[field] =
                       SumSeq([i \in 1..Len(ledger) |->
                                  IF BucketOf(ledger[i]) = field
                                  THEN ledger[i].amount_cents ELSE 0])

\* an export of a ledger with an entry in a category of the other type and an
\* entry of an unknown category
C25_Witness ==
    /\ sheet # NoSheet
    /\ \E i \in 1..Len(ledger) :
           ledger[i].entry_type = "income" /\ ledger[i].category = "gas"
    /\ \E i \in 1..Len(ledger) :
           ledger[i].entry_type = "expense" /\ ledger[i].category = "parking"
    /\ sheet[1].totalCategoryCents.otherIncomeCents > 0
    /\ sheet[1].totalCategoryCents.otherExpenseCents > 0

====
